---- MODULE Spec2Model ----
(***************************************************************************)
(* A model of the note store of mcp-smart-notes: the JSON files under      *)
(* NOTES_DIR and the handlers of note_server.py, simple_note_server.py,    *)
(* smart_tagging_bridge.py and simple_bridge.py that read and write them.  *)
(*                                                                         *)
(* A string is a sequence of one-character strings.  A JSON object is a    *)
(* function from its keys to its values, so that a key a writer never      *)
(* wrote is absent from the DOMAIN, as it is for dict.get and dict[...].   *)
(* A file is [kind |-> "json", obj |-> o], or [kind |-> "garbage"] when    *)
(* json.load raises JSONDecodeError on it.                                 *)
(***************************************************************************)
EXTENDS Integers, Sequences, FiniteSets, TLC

VARIABLES
    clock,      \* what datetime.now() returns, in microseconds
    files,      \* NOTES_DIR: note id -> the file <id>.json
    expected,   \* successful creates minus successful deletes
    last,       \* the last call: its name, arguments and outcome
    calls       \* the calls in flight when callers overlap: caller -> call

vars == <<clock, files, expected, last, calls>>

----------------------------------------------------------------------------
(* Bounds of the model *)

\* how far creates may outnumber deletes
MaxNotes == 2

----------------------------------------------------------------------------
(* Strings *)

\* str.lower() on the characters the model uses
LowerChar(c) ==
    CASE c = "A" -> "a"
      [] c = "B" -> "b"
      [] c = "C" -> "c"
      [] c = "D" -> "d"
      [] c = "E" -> "e"
      [] c = "F" -> "f"
      [] c = "G" -> "g"
      [] c = "H" -> "h"
      [] c = "I" -> "i"
      [] c = "J" -> "j"
      [] c = "K" -> "k"
      [] c = "L" -> "l"
      [] c = "M" -> "m"
      [] c = "N" -> "n"
      [] c = "O" -> "o"
      [] c = "P" -> "p"
      [] c = "Q" -> "q"
      [] c = "R" -> "r"
      [] c = "S" -> "s"
      [] c = "T" -> "t"
      [] c = "U" -> "u"
      [] c = "V" -> "v"
      [] c = "W" -> "w"
      [] c = "X" -> "x"
      [] c = "Y" -> "y"
      [] c = "Z" -> "z"
      [] OTHER -> c

lower(s) == [i \in DOMAIN s |-> LowerChar(s[i])]

\* Python's `sub in s` on strings
Contains(sub, s) ==
    \E i \in 0..(Len(s) - Len(sub)) : SubSeq(s, i + 1, i + Len(sub)) = sub

\* Python's < on strings and on lists: the first difference decides, and a
\* proper prefix is smaller.
RECURSIVE SeqLess(_, _)
SeqLess(a, b) ==
    IF Len(b) = 0 THEN FALSE
    ELSE IF Len(a) = 0 THEN TRUE
    ELSE IF Head(a) # Head(b) THEN Head(a) < Head(b)
    ELSE SeqLess(Tail(a), Tail(b))

\* An optional argument: None, or a value that was passed
None == [some |-> FALSE]
Some(v) == [some |-> TRUE, v |-> v]

\* dict.get(key, default)
Get(obj, key, default) == IF key \in DOMAIN obj THEN obj[key] ELSE default

\* obj[key] = value
Put(obj, key, value) ==
    [k \in DOMAIN obj \cup {key} |-> IF k = key THEN value ELSE obj[k]]

----------------------------------------------------------------------------
(* The clock and what the handlers format from it *)

UsPerMs == 1000
UsPerSec == 1000000

\* datetime.now().strftime("%Y%m%d_%H%M%S_%f")[:-3]: the second, then the
\* first three of the six digits of %f
strftime_ms(t) == <<t \div UsPerSec, (t % UsPerSec) \div UsPerMs>>

\* datetime.now().strftime("%Y%m%d_%H%M%S")
strftime_s(t) == <<t \div UsPerSec>>

\* datetime.isoformat(): "....SS" when microsecond is 0, else "....SS.ffffff"
isoformat(t) ==
    IF t % UsPerSec = 0 THEN <<t \div UsPerSec>>
    ELSE <<t \div UsPerSec, t % UsPerSec>>

\* the instant an isoformat string denotes
fromisoformat(s) ==
    IF Len(s) = 1 THEN s[1] * UsPerSec ELSE s[1] * UsPerSec + s[2]

----------------------------------------------------------------------------
(* Inputs *)

Titles == { <<"B", "u">>, <<"G">> }
Contents == { <<>>, <<"x", "b">> }
TagLists == { <<>>, << <<"F", "u">> >> }
OptTags == {None} \cup {Some(t) : t \in TagLists}
\* what update_note is asked to store as tags
UpdTags == {None, Some(<< >>)}
\* the readings of the clock
Instants == {0, 1, UsPerMs}

Garbage == [kind |-> "garbage"]
Json(obj) == [kind |-> "json", obj |-> obj]

\* the name of a file no handler writes, left in NOTES_DIR by something
\* else: a name of another shape than the one- and two-part timestamps
StrayId == <<0, 0, 0>>

----------------------------------------------------------------------------
(* Outcomes of a call *)

Return(v) == [kind |-> "return", value |-> v]
Raise(e) == [kind |-> "raise", exc |-> e]

----------------------------------------------------------------------------
(* note_server.py *)

\* get_note_path(note_id).exists()
exists(fs, note_id) == note_id \in DOMAIN fs

\* "tags or []": None and the empty list both give []
TagsOrEmpty(tags) == IF tags.some /\ tags.v # <<>> THEN tags.v ELSE <<>>

handle_create_note_id(now) == strftime_ms(now)

\* a slip: the content stored under "title" as well
handle_create_note_record_swapped(now, title, content, tags) ==
    [id |-> handle_create_note_id(now),
     title |-> content,
     content |-> content,
     tags |-> TagsOrEmpty(tags),
     created_at |-> isoformat(now),
     updated_at |-> isoformat(now)]

handle_create_note_record(now, title, content, tags) ==
    [id |-> handle_create_note_id(now),
     title |-> title,
     content |-> content,
     tags |-> TagsOrEmpty(tags),
     created_at |-> isoformat(now),
     updated_at |-> isoformat(now)]

handle_create_note(title, content, tags) ==
    LET note == handle_create_note_record(clock, title, content, tags) IN
    /\ files' = Put(files, note.id, Json(note))
    /\ expected' = expected + 1
    /\ last' = [op |-> "handle_create_note", title |-> Some(title),
                content |-> Some(content), tags |-> tags,
                overwrote |-> exists(files, note.id),
                out |-> Return([id |-> note.id, title |-> title])]
    /\ UNCHANGED clock

\* json.load(f): the object, when the file decodes
json_load_ok(fs, note_id) == fs[note_id].kind = "json"

\* note[k] for each k of keys in turn: the first absent key raises KeyError
MissingKey(obj, keys) == \E i \in DOMAIN keys : keys[i] \notin DOMAIN obj

\* "if note.get('tags'):" then a "Tags: ..." line
TagsLine(obj) ==
    IF Get(obj, "tags", <<>>) # <<>>
    THEN << [label |-> "Tags", value |-> obj["tags"]] >>
    ELSE << >>

NotFound(note_id) == Return([msg |-> "not found", id |-> note_id])

get_note_text(obj) ==
    << [label |-> "title", value |-> obj["title"]],
       [label |-> "rule", value |-> Len(obj["title"])],
       [label |-> "content", value |-> obj["content"]],
       [label |-> "ID", value |-> obj["id"]],
       [label |-> "Created", value |-> obj["created_at"]],
       [label |-> "Updated", value |-> obj["updated_at"]] >> \o TagsLine(obj)

get_note_out(fs, note_id) ==
    IF ~exists(fs, note_id) THEN NotFound(note_id)
    ELSE IF ~json_load_ok(fs, note_id) THEN Raise("JSONDecodeError")
    ELSE IF MissingKey(fs[note_id].obj,
                       <<"title", "content", "id", "created_at", "updated_at">>)
         THEN Raise("KeyError")
    ELSE Return([msg |-> "note", text |-> get_note_text(fs[note_id].obj)])

get_note(note_id) ==
    /\ last' = [op |-> "get_note", id |-> note_id,
                out |-> get_note_out(files, note_id)]
    /\ UNCHANGED <<clock, files, expected>>

\* the names of the arguments that are not None, in the code's order
update_note_updates(title, content, tags) ==
    (IF title.some THEN <<"title">> ELSE << >>)
    \o (IF content.some THEN <<"content">> ELSE << >>)
    \o (IF tags.some THEN <<"tags">> ELSE << >>)

\* a slip: an absent tags argument clears the stored tags
update_note_fields_clobber(obj, title, content, tags) ==
    LET a == IF title.some THEN Put(obj, "title", title.v) ELSE obj
        b == IF content.some THEN Put(a, "content", content.v) ELSE a
    IN  Put(b, "tags", IF tags.some THEN tags.v ELSE << >>)

\* the note with every argument that is not None stored in it
update_note_fields(obj, title, content, tags) ==
    LET a == IF title.some THEN Put(obj, "title", title.v) ELSE obj
        b == IF content.some THEN Put(a, "content", content.v) ELSE a
    IN  IF tags.some THEN Put(b, "tags", tags.v) ELSE b

\* a slip: the record is written back whatever was asked
update_note_writes_always(updates) == TRUE

\* a slip: the record is written back only when a title was given
update_note_writes_title_only(updates) ==
    \E i \in DOMAIN updates : updates[i] = "title"

\* whether update_note writes the record back, stamped with the time
update_note_writes(updates) == updates # << >>

\* [files, out]: NOTES_DIR after the call and what the call returns
update_note_result(fs, now, note_id, title, content, tags) ==
    LET updates == update_note_updates(title, content, tags) IN
    IF ~exists(fs, note_id) THEN [files |-> fs, out |-> NotFound(note_id)]
    ELSE IF ~json_load_ok(fs, note_id)
         THEN [files |-> fs, out |-> Raise("JSONDecodeError")]
    ELSE IF update_note_writes(updates)
         THEN [files |-> Put(fs, note_id,
                    Json(Put(update_note_fields(fs[note_id].obj, title, content, tags),
                             "updated_at", isoformat(now)))),
               out |-> Return([msg |-> "updated", id |-> note_id, updates |-> updates])]
    ELSE [files |-> fs, out |-> Return([msg |-> "no updates"])]

update_note(note_id, title, content, tags) ==
    LET r == update_note_result(files, clock, note_id, title, content, tags) IN
    /\ files' = r.files
    /\ last' = [op |-> "update_note", id |-> note_id,
                title |-> title, content |-> content,
                tags |-> tags,
                same |-> /\ exists(files, note_id)
                         /\ json_load_ok(files, note_id)
                         /\ update_note_fields(files[note_id].obj, title, content, tags)
                                = files[note_id].obj,
                out |-> r.out]
    /\ UNCHANGED <<clock, expected>>

\* a slip: every file of the directory is removed
unlink_all(fs, note_id) == << >>

\* NOTES_DIR without the file of note_id: note_path.unlink()
unlink(fs, note_id) == [k \in DOMAIN fs \ {note_id} |-> fs[k]]

delete_note_result(fs, note_id) ==
    IF ~exists(fs, note_id) THEN [files |-> fs, out |-> NotFound(note_id)]
    ELSE IF ~json_load_ok(fs, note_id)
         THEN [files |-> fs, out |-> Raise("JSONDecodeError")]
    ELSE IF MissingKey(fs[note_id].obj, <<"title">>)
         THEN [files |-> fs, out |-> Raise("KeyError")]
    ELSE [files |-> unlink(fs, note_id),
          out |-> Return([msg |-> "deleted", id |-> note_id,
                          title |-> fs[note_id].obj["title"]])]

delete_note(note_id) ==
    LET r == delete_note_result(files, note_id) IN
    /\ files' = r.files
    /\ expected' = IF r.out.kind = "return" /\ r.out.value.msg = "deleted"
                   THEN expected - 1 ELSE expected
    /\ last' = [op |-> "delete_note", id |-> note_id, out |-> r.out]
    /\ UNCHANGED clock

\* NOTES_DIR.glob("*.json") yields the files in an order of the file
\* system's choosing: any enumeration of the directory
Orders(fs) ==
    {o \in [1..Cardinality(DOMAIN fs) -> DOMAIN fs] :
        \A i, j \in DOMAIN o : i # j => o[i] # o[j]}

\* the notes json.load decodes, in the order of the enumeration
Decoded(fs, order) ==
    LET good == SelectSeq(order, LAMBDA i : fs[i].kind = "json")
    IN  [n \in DOMAIN good |-> fs[good[n]].obj]

\* how many files of the directory json.load raises JSONDecodeError on
Undecodable(fs) == Cardinality({i \in DOMAIN fs : fs[i].kind = "garbage"})

\* note_server.list_all_notes: the except clause prints to sys.stderr, and
\* the module never imports sys, so the first undecodable file ends the
\* call with NameError.
list_all_notes(fs, order) ==
    IF Undecodable(fs) > 0
    THEN [kind |-> "raise", exc |-> "NameError", stderr |-> 0]
    ELSE [kind |-> "return", value |-> Decoded(fs, order), stderr |-> 0]

\* the test of search_notes_by_content on one note
search_notes_by_content_test(note, query_lower) ==
    \/ Contains(query_lower, lower(Get(note, "content", << >>)))
    \/ Contains(query_lower, lower(Get(note, "title", << >>)))
    \/ \E n \in DOMAIN Get(note, "tags", << >>) :
          Contains(query_lower, lower(Get(note, "tags", << >>)[n]))

search_notes_by_content(fs, order, query) ==
    LET all == list_all_notes(fs, order) IN
    IF all.kind = "raise" THEN all
    ELSE [all EXCEPT !.value =
            SelectSeq(all.value,
                      LAMBDA note : search_notes_by_content_test(note, lower(query)))]

PreviewLen == 100

\* note['content'][:100] + "..." if len(note['content']) > 100 else note['content']
Preview(content) ==
    IF Len(content) > PreviewLen
    THEN SubSeq(content, 1, PreviewLen) \o <<".", ".", ".">>
    ELSE content

\* the text search_notes builds from the results
search_notes_text(results) ==
    IF Len(results) = 0 THEN [msg |-> "none"]
    ELSE [msg |-> "found",
          items |-> [n \in DOMAIN results |->
                       [title |-> results[n]["title"],
                        id |-> results[n]["id"],
                        preview |-> Preview(results[n]["content"]),
                        tags |-> TagsLine(results[n])]]]

search_notes(order, query) ==
    LET results == search_notes_by_content(files, order, query) IN
    /\ last' = [op |-> "search_notes", query |-> query, stderr |-> results.stderr,
                out |-> IF results.kind = "raise" THEN Raise(results.exc)
                        ELSE Return(search_notes_text(results.value))]
    /\ UNCHANGED <<clock, files, expected>>

\* sorted(notes, key=created_at, reverse=True): descending, and stable, so
\* notes of equal key keep the order they were enumerated in
RECURSIVE sorted_reverse(_)
sorted_reverse(notes) ==
    IF Len(notes) = 0 THEN << >>
    ELSE LET rest == sorted_reverse(SubSeq(notes, 1, Len(notes) - 1))
             x == notes[Len(notes)]
             n == Cardinality({k \in DOMAIN rest :
                     ~SeqLess(Get(rest[k], "created_at", << >>),
                              Get(x, "created_at", << >>))})
         IN  SubSeq(rest, 1, n) \o <<x>> \o SubSeq(rest, n + 1, Len(rest))

\* s[:limit], for a limit of either sign
SliceTo(s, limit) ==
    IF limit >= 0
    THEN SubSeq(s, 1, IF limit < Len(s) THEN limit ELSE Len(s))
    ELSE SubSeq(s, 1, IF Len(s) + limit > 0 THEN Len(s) + limit ELSE 0)

DefaultLimit == 10
SecPerDay == 86400

\* note['created_at'][:10]: the date of the timestamp
DateOf(created_at) == created_at[1] \div SecPerDay

list_recent_notes_text(notes) ==
    IF Len(notes) = 0 THEN [msg |-> "none"]
    ELSE [msg |-> "recent",
          items |-> [n \in DOMAIN notes |->
                       [title |-> notes[n]["title"],
                        id |-> notes[n]["id"],
                        created |-> DateOf(notes[n]["created_at"]),
                        tags |-> TagsLine(notes[n])]]]

list_recent_notes_out(fs, order, limit) ==
    LET all == list_all_notes(fs, order) IN
    IF all.kind = "raise" THEN Raise(all.exc)
    ELSE IF \E n \in DOMAIN all.value : "created_at" \notin DOMAIN all.value[n]
         THEN Raise("KeyError")
    ELSE Return(list_recent_notes_text(
                    SliceTo(sorted_reverse(all.value),
                            IF limit.some THEN limit.v ELSE DefaultLimit)))

list_recent_notes(order, limit) ==
    /\ last' = [op |-> "list_recent_notes", limit |-> limit,
                stderr |-> list_all_notes(files, order).stderr,
                out |-> list_recent_notes_out(files, order, limit)]
    /\ UNCHANGED <<clock, files, expected>>

----------------------------------------------------------------------------
(* simple_note_server.py *)

\* simple_note_server.list_all_notes: sys is imported, so an undecodable
\* file is reported on stderr and skipped
simple_list_all_notes(fs, order) ==
    [kind |-> "return", value |-> Decoded(fs, order), stderr |-> Undecodable(fs)]

\* call_tool("list_notes", {})
simple_list_notes(order) ==
    LET notes == simple_list_all_notes(files, order) IN
    /\ last' = [op |-> "simple_list_notes", stderr |-> notes.stderr,
                out |-> Return(IF Len(notes.value) = 0 THEN [msg |-> "none"]
                               ELSE [msg |-> "notes",
                                     items |-> [n \in DOMAIN notes.value |->
                                         [title |-> notes.value[n]["title"],
                                          id |-> notes.value[n]["id"]]]])]
    /\ UNCHANGED <<clock, files, expected>>

\* arguments.get(key, ""): the empty string for an absent argument
ArgOrEmpty(a) == IF a.some THEN a.v ELSE << >>

simple_create_note_record(now, title, content) ==
    [id |-> strftime_s(now),
     title |-> ArgOrEmpty(title),
     content |-> ArgOrEmpty(content),
     created_at |-> isoformat(now)]

\* call_tool("create_note", arguments)
simple_create_note(title, content) ==
    LET note == simple_create_note_record(clock, title, content) IN
    /\ files' = Put(files, note.id, Json(note))
    /\ expected' = expected + 1
    /\ last' = [op |-> "simple_create_note",
                overwrote |-> exists(files, note.id),
                out |-> Return([id |-> note.id, title |-> note.title])]
    /\ UNCHANGED clock

----------------------------------------------------------------------------
(* smart_tagging_bridge.py *)

\* note['content'][:50] followed by "..."
BridgePreviewLen == 50
BridgePreview(content) ==
    SubSeq(content, 1, IF Len(content) < BridgePreviewLen THEN Len(content)
                       ELSE BridgePreviewLen) \o <<".", ".", ".">>

\* the test of smart_tagging_bridge.search_notes on one note
stb_search_notes_test(note, query) ==
    \/ Contains(lower(query), lower(Get(note, "title", << >>)))
    \/ Contains(lower(query), lower(Get(note, "content", << >>)))
    \/ \E n \in DOMAIN Get(note, "tags", << >>) :
          Contains(lower(query), lower(Get(note, "tags", << >>)[n]))

\* the notes search_notes collects: an undecodable file is passed over
\* in silence
stb_search_notes_found(fs, order, query) ==
    SelectSeq(Decoded(fs, order), LAMBDA note : stb_search_notes_test(note, query))

stb_search_notes(order, query) ==
    LET notes == stb_search_notes_found(files, order, query) IN
    /\ last' = [op |-> "stb_search_notes", query |-> query, stderr |-> 0,
                found |-> [n \in DOMAIN notes |-> notes[n]["id"]],
                out |-> Return(IF Len(notes) = 0 THEN [msg |-> "none"]
                               ELSE [msg |-> "found",
                                     items |-> [n \in DOMAIN notes |->
                                         [title |-> notes[n]["title"],
                                          preview |-> BridgePreview(notes[n]["content"]),
                                          auto |-> Get(notes[n], "auto_tagged", FALSE),
                                          tags |-> TagsLine(notes[n])]]])]
    /\ UNCHANGED <<clock, files, expected>>

\* list_notes: every decodable note, newest first; an undecodable file is
\* passed over in silence
stb_list_notes(order) ==
    LET notes == sorted_reverse(Decoded(files, order)) IN
    /\ last' = [op |-> "stb_list_notes", stderr |-> 0,
                out |-> Return(IF Len(notes) = 0 THEN [msg |-> "none"]
                               ELSE [msg |-> "notes",
                                     items |-> [n \in DOMAIN notes |->
                                         [title |-> notes[n]["title"],
                                          id |-> notes[n]["id"],
                                          auto |-> Get(notes[n], "auto_tagged", FALSE),
                                          tags |-> TagsLine(notes[n])]]])]
    /\ UNCHANGED <<clock, files, expected>>

----------------------------------------------------------------------------
(* simple_bridge.py *)

\* the test of simple_bridge.search_notes on one note: title and content
sb_search_notes_test(note, query) ==
    \/ Contains(lower(query), lower(Get(note, "title", << >>)))
    \/ Contains(lower(query), lower(Get(note, "content", << >>)))

sb_search_notes_found(fs, order, query) ==
    SelectSeq(Decoded(fs, order), LAMBDA note : sb_search_notes_test(note, query))

sb_search_notes(order, query) ==
    LET notes == sb_search_notes_found(files, order, query) IN
    /\ last' = [op |-> "sb_search_notes", query |-> query, stderr |-> 0,
                found |-> [n \in DOMAIN notes |-> notes[n]["id"]],
                out |-> Return(IF Len(notes) = 0 THEN [msg |-> "none"]
                               ELSE [msg |-> "found",
                                     items |-> [n \in DOMAIN notes |->
                                         [title |-> notes[n]["title"],
                                          preview |-> BridgePreview(notes[n]["content"])]]])]
    /\ UNCHANGED <<clock, files, expected>>

----------------------------------------------------------------------------
(* The tag classifier: analyze_content_for_tags of smart_tagging_bridge.py  *)
(* and of simple_bridge.py                                                 *)

AVAILABLE_TAGS ==
    << <<"G", "r", "e", "e", "t", "i", "n", "g">>,
       <<"C", "o", "d", "i", "n", "g">>,
       <<"E", "d", "u", "c", "a", "t", "i", "o", "n">>,
       <<"F", "i", "n", "a", "n", "c", "e">> >>

\* The offline tier's four tests in the order the code makes them: the tag
\* appended and the words any of which selects it
KeywordTable ==
    << [tag |-> <<"G", "r", "e", "e", "t", "i", "n", "g">>,
        words |-> << <<"h", "e", "l", "l", "o">>,
                    <<"h", "i">>,
                    <<"g", "r", "e", "e", "t", "i", "n", "g", "s">>,
                    <<"w", "e", "l", "c", "o", "m", "e">>,
                    <<"n", "i", "c", "e", " ", "t", "o", " ", "m", "e", "e", "t">> >>],
       [tag |-> <<"C", "o", "d", "i", "n", "g">>,
        words |-> << <<"c", "o", "d", "e">>,
                    <<"p", "y", "t", "h", "o", "n">>,
                    <<"j", "a", "v", "a", "s", "c", "r", "i", "p", "t">>,
                    <<"p", "r", "o", "g", "r", "a", "m", "m", "i", "n", "g">>,
                    <<"f", "u", "n", "c", "t", "i", "o", "n">>,
                    <<"c", "l", "a", "s", "s">>,
                    <<"a", "p", "i">> >>],
       [tag |-> <<"E", "d", "u", "c", "a", "t", "i", "o", "n">>,
        words |-> << <<"l", "e", "a", "r", "n">>,
                    <<"s", "t", "u", "d", "y">>,
                    <<"e", "d", "u", "c", "a", "t", "i", "o", "n">>,
                    <<"c", "o", "u", "r", "s", "e">>,
                    <<"t", "u", "t", "o", "r", "i", "a", "l">>,
                    <<"l", "e", "s", "s", "o", "n">> >>],
       [tag |-> <<"F", "i", "n", "a", "n", "c", "e">>,
        words |-> << <<"m", "o", "n", "e", "y">>,
                    <<"b", "u", "d", "g", "e", "t">>,
                    <<"f", "i", "n", "a", "n", "c", "e">>,
                    <<"i", "n", "v", "e", "s", "t", "m", "e", "n", "t">>,
                    <<"c", "o", "s", "t">>,
                    <<"p", "r", "i", "c", "e">>,
                    <<"b", "a", "n", "k">> >>] >>

\* how many tags each tier returns at most
ModelTierMax == 3
TextTierMax == 2
KeywordTierMax == 2

\* str.strip() of the blanks and line ends the model's texts have
IsSpace(c) == c \in {" ", "\n"}

RECURSIVE lstrip(_)
lstrip(s) == IF Len(s) > 0 /\ IsSpace(Head(s)) THEN lstrip(Tail(s)) ELSE s

RECURSIVE rstrip(_)
rstrip(s) ==
    IF Len(s) > 0 /\ IsSpace(s[Len(s)]) THEN rstrip(SubSeq(s, 1, Len(s) - 1))
    ELSE s

strip(s) == rstrip(lstrip(s))

\* json.loads, for the JSON the model's texts are written in: strings
\* without escapes, integers, null, true and false, arrays and objects, with
\* blanks between them.  The result is [kind |-> "ok", v, next], v the value
\* and next the index after it, or the exception raised.
JsonError(e) == [kind |-> e]
JsonOk(v, next) == [kind |-> "ok", v |-> v, next |-> next]

RECURSIVE SkipWs(_, _)
SkipWs(s, i) == IF i <= Len(s) /\ IsSpace(s[i]) THEN SkipWs(s, i + 1) ELSE i

Digits == {"0", "1", "2", "3", "4", "5", "6", "7", "8", "9"}

\* the index after the digits that start at i
RECURSIVE EndOfDigits(_, _)
EndOfDigits(s, i) ==
    IF i <= Len(s) /\ s[i] \in Digits THEN EndOfDigits(s, i + 1) ELSE i

\* the index of the first quote at or after i, 0 when there is none
RECURSIVE NextQuote(_, _)
NextQuote(s, i) ==
    IF i > Len(s) THEN 0
    ELSE IF s[i] = "\"" THEN i
    ELSE NextQuote(s, i + 1)

\* the text has the word at index i
Literal(s, i, word) ==
    /\ i + Len(word) - 1 <= Len(s)
    /\ SubSeq(s, i, i + Len(word) - 1) = word

\* The nesting at which the decoder gives up with RecursionError: by
\* sys.getrecursionlimit() open brackets at the latest, 1000 unless changed
RecursionLimit == 1000

\* the text opens more brackets in a row than the decoder can follow
TooDeep(s) ==
    LET i == SkipWs(s, 1) IN
    \A k \in 0..RecursionLimit : i + k <= Len(s) /\ s[i + k] = "["

RECURSIVE scan_once(_, _, _)
RECURSIVE scan_array(_, _, _, _)
RECURSIVE scan_object(_, _, _, _)

\* the value that starts at index i, `depth` brackets being open
scan_once(s, i, depth) ==
    IF i > Len(s) THEN JsonError("JSONDecodeError")
    ELSE IF s[i] = "\"" THEN
        LET j == NextQuote(s, i + 1) IN
        IF j = 0 THEN JsonError("JSONDecodeError")
        ELSE JsonOk([t |-> "str", v |-> SubSeq(s, i + 1, j - 1)], j + 1)
    ELSE IF s[i] \in {"[", "{"} THEN
        LET j == SkipWs(s, i + 1)
            closing == IF s[i] = "[" THEN "]" ELSE "}"
            empty == IF s[i] = "[" THEN [t |-> "list", v |-> << >>]
                     ELSE [t |-> "dict", v |-> << >>]
        IN
        IF depth >= RecursionLimit THEN JsonError("RecursionError")
        ELSE IF j <= Len(s) /\ s[j] = closing THEN JsonOk(empty, j + 1)
        ELSE IF s[i] = "[" THEN scan_array(s, j, depth + 1, << >>)
        ELSE scan_object(s, j, depth + 1, << >>)
    ELSE IF Literal(s, i, <<"n", "u", "l", "l">>) THEN JsonOk([t |-> "null"], i + 4)
    ELSE IF Literal(s, i, <<"t", "r", "u", "e">>) THEN JsonOk([t |-> "bool", v |-> TRUE], i + 4)
    ELSE IF Literal(s, i, <<"f", "a", "l", "s", "e">>) THEN JsonOk([t |-> "bool", v |-> FALSE], i + 5)
    ELSE LET d == IF s[i] = "-" THEN i + 1 ELSE i
             e == EndOfDigits(s, d)
         IN  IF e > d THEN JsonOk([t |-> "int", v |-> SubSeq(s, i, e - 1)], e)
             ELSE JsonError("JSONDecodeError")

\* the rest of an array from the value at index i on; acc holds the
\* values before it
scan_array(s, i, depth, acc) ==
    LET r == scan_once(s, i, depth)
        j == SkipWs(s, r.next)
    IN
    IF r.kind # "ok" THEN r
    ELSE IF j > Len(s) THEN JsonError("JSONDecodeError")
    ELSE IF s[j] = "," THEN scan_array(s, SkipWs(s, j + 1), depth, Append(acc, r.v))
    ELSE IF s[j] = "]" THEN JsonOk([t |-> "list", v |-> Append(acc, r.v)], j + 1)
    ELSE JsonError("JSONDecodeError")

\* the rest of an object from the key at index i on; acc holds the keys
\* before it, which is all of an object the classifier looks at
scan_object(s, i, depth, acc) ==
    LET k == IF i <= Len(s) /\ s[i] = "\"" THEN NextQuote(s, i + 1) ELSE 0
        c == SkipWs(s, k + 1)
        r == scan_once(s, SkipWs(s, c + 1), depth)
        j == SkipWs(s, r.next)
        keys == Append(acc, [t |-> "str", v |-> SubSeq(s, i + 1, k - 1)])
    IN
    IF k = 0 THEN JsonError("JSONDecodeError")
    ELSE IF c > Len(s) \/ s[c] # ":" THEN JsonError("JSONDecodeError")
    ELSE IF r.kind # "ok" THEN r
    ELSE IF j > Len(s) THEN JsonError("JSONDecodeError")
    ELSE IF s[j] = "," THEN scan_object(s, SkipWs(s, j + 1), depth, keys)
    ELSE IF s[j] = "}" THEN JsonOk([t |-> "dict", v |-> keys], j + 1)
    ELSE JsonError("JSONDecodeError")

\* json.loads(s): one value and nothing but blanks around it
json_loads(s) ==
    LET r == scan_once(s, SkipWs(s, 1), 0) IN
    IF TooDeep(s) THEN JsonError("RecursionError")
    ELSE IF r.kind # "ok" THEN r
    ELSE IF SkipWs(s, r.next) <= Len(s) THEN JsonError("JSONDecodeError")
    ELSE r

\* what client.chat gives: an exception, or a response whose
\* message.content is None or a text
ChatError == [kind |-> "error"]
ChatResponse(content) == [kind |-> "response", content |-> content]

\* (response.message.content or "").strip()
response_text(chat) == strip(IF chat.content.some THEN chat.content.v ELSE << >>)

\* what a tier returns, and which tier it is
Tagged(tags, tier) == [tags |-> tags, tier |-> tier]

\* a slip: every string of the list is kept
in_available_tags_any(e) == e.t = "str"

\* "tag in AVAILABLE_TAGS" for an element of the parsed value: only a
\* string can equal an entry
in_available_tags(e) ==
    e.t = "str" /\ \E n \in DOMAIN AVAILABLE_TAGS : AVAILABLE_TAGS[n] = e.v

\* [tag for tag in suggested_tags if tag in AVAILABLE_TAGS]
valid_tags(elems) ==
    LET keep == SelectSeq(elems, in_available_tags)
    IN  [n \in DOMAIN keep |-> keep[n].v]

\* a slip: the tags are returned as they are compared, in lower case
found_tags_lowered(text) ==
    LET hit == SelectSeq(AVAILABLE_TAGS,
                   LAMBDA tag : Contains(lower(tag), lower(text)))
    IN  [n \in DOMAIN hit |-> lower(hit[n])]

\* the text-scan tier: the entries of AVAILABLE_TAGS, in its order, that
\* the response has in it, whatever the case
found_tags(text) ==
    SelectSeq(AVAILABLE_TAGS, LAMBDA tag : Contains(lower(tag), lower(text)))

\* the offline keyword tier on (title + " " + content).lower()
fallback_tags(title, content) ==
    LET content_lower == lower(title \o <<" ">> \o content)
        hit == SelectSeq(KeywordTable,
                   LAMBDA e : \E n \in DOMAIN e.words :
                                  Contains(e.words[n], content_lower))
    IN  [n \in DOMAIN hit |-> hit[n].tag]

\* a slip: the keyword tier's result is not cut
keyword_tier_uncut(title, content) ==
    Tagged(fallback_tags(title, content), "keyword")

model_tier(elems) == Tagged(SliceTo(valid_tags(elems), ModelTierMax), "model")
text_tier(text) == Tagged(SliceTo(found_tags(text), TextTierMax), "text")
keyword_tier(title, content) ==
    Tagged(SliceTo(fallback_tags(title, content), KeywordTierMax), "keyword")

\* smart_tagging_bridge.analyze_content_for_tags.  A parsed list is
\* answered by the model tier; any other parsed value and JSONDecodeError
\* go on to the text scan; every other exception raised inside the try,
\* that of client.chat or that of json.loads, is caught by "except
\* Exception" and leads to the keyword tier.
stb_analyze_content_for_tags(title, content, chat) ==
    LET text == response_text(chat)
        r == json_loads(text)
    IN
    IF chat.kind = "error" THEN keyword_tier(title, content)
    ELSE IF r.kind = "ok" /\ r.v.t = "list" THEN model_tier(r.v.v)
    ELSE IF r.kind \in {"ok", "JSONDecodeError"} THEN text_tier(text)
    ELSE keyword_tier(title, content)

\* "for tag in suggested_tags" can run over a list, over the keys of a
\* dict and over the characters of a string
iterable(v) == v.t \in {"list", "dict", "str"}

iter(v) ==
    IF v.t = "str" THEN [n \in DOMAIN v.v |-> [t |-> "str", v |-> <<v.v[n]>>]]
    ELSE v.v

\* simple_bridge.analyze_content_for_tags, which does not ask whether the
\* parsed value is a list: a value that cannot be iterated raises
\* TypeError, and that too leads to the keyword tier.
sb_analyze_content_for_tags(title, content, chat) ==
    LET text == response_text(chat)
        r == json_loads(text)
    IN
    IF chat.kind = "error" THEN keyword_tier(title, content)
    ELSE IF r.kind = "ok" /\ iterable(r.v) THEN model_tier(iter(r.v))
    ELSE IF r.kind = "JSONDecodeError" THEN text_tier(text)
    ELSE keyword_tier(title, content)

\* analyze_content_for_tags called by itself, as test_auto_tagging.py does
stb_analyze(title, content, chat) ==
    LET r == stb_analyze_content_for_tags(title, content, chat) IN
    /\ last' = [op |-> "stb_analyze", title |-> title, content |-> content,
                chat |-> chat, out |-> r.tags, tier |-> r.tier]
    /\ UNCHANGED <<clock, files, expected, calls>>

sb_analyze(title, content, chat) ==
    LET r == sb_analyze_content_for_tags(title, content, chat) IN
    /\ last' = [op |-> "sb_analyze", title |-> title, content |-> content,
                chat |-> chat, out |-> r.tags, tier |-> r.tier]
    /\ UNCHANGED <<clock, files, expected, calls>>

\* "auto_tag and not tags": asked for, and no tag given
auto_tagged(tags, auto_tag) == auto_tag /\ (~tags.some \/ tags.v = << >>)

\* create_note of either bridge up to the note it writes; auto_tags is what
\* the bridge's analyze_content_for_tags returns for the title and content,
\* and client tells whether Client() could be made.  The classifier is called when auto_tag holds and
\* final_tags is empty, which it also is when the caller gave an empty
\* list; when Client() raises, the except clause leaves final_tags empty.
bridge_create_note_result(auto_tags, now, title, content, tags, auto_tag, client) ==
    LET given == IF tags.some THEN tags.v ELSE << >>
        wanted == auto_tag /\ given = << >>
        invoked == wanted /\ client = "ok"
        final_tags == IF invoked THEN auto_tags.tags
                      ELSE given
    IN  [invoked |-> invoked,
         failed |-> wanted /\ client = "raise",
         note |-> [id |-> strftime_ms(now),
                   title |-> title,
                   content |-> content,
                   tags |-> final_tags,
                   created_at |-> isoformat(now),
                   auto_tagged |-> auto_tagged(tags, auto_tag)]]

\* a slip: the except clause raises the exception again
create_note_try_reraise(exc) == exc

\* The try statement of create_note around Client() and the classifier,
\* its body having raised exc or nothing: `except Exception as e` prints
\* and goes on, so nothing leaves the statement.
create_note_try(exc) == None

\* what leaves create_note's try statement in the call with result r
create_note_raised(r) ==
    create_note_try(IF r.failed THEN Some("Exception") ELSE None)

\* smart_tagging_bridge.create_note, as execute_tool calls it
stb_create_note(title, content, tags, auto_tag, client, chat) ==
    LET r == bridge_create_note_result(
                 stb_analyze_content_for_tags(title, content, chat),
                 clock, title, content, tags, auto_tag, client)
        raised == create_note_raised(r)
    IN
    /\ files' = IF raised.some THEN files ELSE Put(files, r.note.id, Json(r.note))
    /\ last' = [op |-> "stb_create_note", content |-> content,
                tags |-> tags, auto_tag |-> auto_tag,
                chat |-> chat, invoked |-> r.invoked, failed |-> r.failed,
                out |-> IF raised.some THEN Raise(raised.v)
                        ELSE Return([id |-> r.note.id, title |-> title,
                                     tags |-> r.note.tags])]
    /\ UNCHANGED <<clock, expected, calls>>

\* simple_bridge.create_note
sb_create_note(title, content, tags, auto_tag, client, chat) ==
    LET r == bridge_create_note_result(
                 sb_analyze_content_for_tags(title, content, chat),
                 clock, title, content, tags, auto_tag, client)
        raised == create_note_raised(r)
    IN
    /\ files' = IF raised.some THEN files ELSE Put(files, r.note.id, Json(r.note))
    /\ last' = [op |-> "sb_create_note", content |-> content,
                tags |-> tags, auto_tag |-> auto_tag,
                chat |-> chat, invoked |-> r.invoked, failed |-> r.failed,
                out |-> IF raised.some THEN Raise(raised.v)
                        ELSE Return([id |-> r.note.id, title |-> title,
                                     tags |-> r.note.tags])]
    /\ UNCHANGED <<clock, expected, calls>>

----------------------------------------------------------------------------
(* The environment *)

\* time passes between two calls: to the next microsecond, or on to the
\* next millisecond
Tick ==
    /\ \E t \in Instants : t > clock /\ clock' = t
    /\ UNCHANGED <<files, expected, last>>

\* time passes on to the next second
TickSecond ==
    /\ clock < UsPerSec
    /\ clock' = UsPerSec
    /\ UNCHANGED <<files, expected, last>>

\* Something other than the handlers leaves an undecodable .json file in
\* NOTES_DIR: the record list_all_notes' except clause is written for.
StrayFile ==
    /\ StrayId \notin DOMAIN files
    /\ files' = Put(files, StrayId, Garbage)
    /\ last' = [op |-> "stray_file"]
    /\ UNCHANGED <<clock, expected>>

\* the ids a caller may ask for: those stored, and one that never is
AbsentId == <<0, 0, 0, 0>>
AskIds == DOMAIN files \cup {AbsentId}

\* what update_note is asked to store
OptTitles == {None, Some(<<"G">>)}
OptContents == {None, Some(<<"x", "b">>)}

\* the callers that may have a call in flight at the same time
Callers == {1, 2}

\* a caller with no call in flight
Idle == [op |-> "idle", pc |-> "idle"]

Init ==
    /\ clock = 0
    /\ files = << >>
    /\ expected = 0
    /\ last = [op |-> "none"]
    /\ calls = [p \in Callers |-> Idle]

\* what simple_note_server's create_note is asked to store
SimpleTitles == {None, Some(<<"B", "u">>)}
SimpleContents == {None, Some(<<"x", "b">>)}

\* One call at a time, each run to completion before the next begins.
Next ==
    \/ Tick /\ UNCHANGED calls
    \/ StrayFile /\ UNCHANGED calls
    \/ \E t \in Titles, c \in Contents, g \in OptTags :
          expected < MaxNotes /\ handle_create_note(t, c, g) /\ UNCHANGED calls
    \/ \E i \in AskIds : get_note(i) /\ UNCHANGED calls
    \/ \E i \in AskIds, t \in OptTitles, c \in OptContents, g \in UpdTags :
          update_note(i, t, c, g) /\ UNCHANGED calls
    \/ \E i \in AskIds : delete_note(i) /\ UNCHANGED calls

Spec == Init /\ [][Next]_vars

\* what the searches are asked for
Queries == { << >>, <<"b", "U">>, <<"X">>, <<"f">> }

\* the limits list_recent_notes is called with; None is the default
Limits == {None, Some(-1), Some(0), Some(1), Some(2)}

\* The servers and bridges on one NOTES_DIR: notes are written by the two
\* servers and read by every listing and search.
NextQuery ==
    \/ TickSecond /\ UNCHANGED calls
    \/ StrayFile /\ UNCHANGED calls
    \/ \E t \in Titles, c \in Contents, g \in OptTags :
          expected < MaxNotes /\ handle_create_note(t, c, g) /\ UNCHANGED calls
    \/ \E t \in SimpleTitles, c \in SimpleContents :
          expected < MaxNotes /\ simple_create_note(t, c) /\ UNCHANGED calls
    \/ \E o \in Orders(files), q \in Queries : search_notes(o, q) /\ UNCHANGED calls
    \/ \E o \in Orders(files), l \in Limits : list_recent_notes(o, l) /\ UNCHANGED calls
    \/ \E o \in Orders(files) : simple_list_notes(o) /\ UNCHANGED calls
    \/ \E o \in Orders(files), q \in Queries : stb_search_notes(o, q) /\ UNCHANGED calls
    \/ \E o \in Orders(files) : stb_list_notes(o) /\ UNCHANGED calls
    \/ \E o \in Orders(files), q \in Queries : sb_search_notes(o, q) /\ UNCHANGED calls

SpecQuery == Init /\ [][NextQuery]_vars

----------------------------------------------------------------------------
(* Overlapping calls.  Every server and bridge process works on the same   *)
(* NOTES_DIR and none takes a lock, so the calls of two callers interleave *)
(* at their file operations: the existence check, the read, the open for   *)
(* writing, the write and the unlink are steps of their own.               *)

\* a file opened with mode 'w' and not written yet: it exists and is empty,
\* and json.load raises JSONDecodeError on it
Truncated == [kind |-> "truncated"]

\* a call that has not taken a step: `existed` tells whether the note was
\* stored when the call began, `note` is the handler's local variable, and
\* `orphan` tells that the file the call holds open has been unlinked
Call(op, note_id, title, content, tags) ==
    [op |-> op, pc |-> "start", id |-> note_id,
     title |-> title, content |-> content, tags |-> tags,
     note |-> None, out |-> None, orphan |-> FALSE,
     existed |-> exists(files, note_id) /\ json_load_ok(files, note_id)]

\* the calls a caller may begin: all of them on the id the clock gives
NewCalls ==
    LET i == handle_create_note_id(clock) IN
    {Call("handle_create_note", i, Some(t), Some(c), None) :
        t \in Titles, c \in Contents}
    \cup {Call("update_note", i, t, c, None) : t \in OptTitles, c \in OptContents}
    \cup {Call("delete_note", i, None, None, None),
          Call("get_note", i, None, None, None)}

At(p, op, pc) == calls[p].op = op /\ calls[p].pc = pc

\* the call of caller p has returned or raised
Done(p, out) == calls' = [calls EXCEPT ![p].pc = "done", ![p].out = Some(out)]

\* Caller p begins a call.  The outcomes of calls that had ended before are
\* forgotten, so two calls that are both done have overlapped.
Begin(p) ==
    /\ calls[p].pc \in {"idle", "done"}
    /\ \E c \in NewCalls :
          calls' = [q \in Callers |->
                       IF q = p THEN c
                       ELSE IF calls[q].pc = "done" THEN Idle ELSE calls[q]]
    /\ UNCHANGED <<clock, files, expected, last>>

\* open(note_path, 'r') and json.load(f)
open_r(fs, note_id) ==
    IF ~exists(fs, note_id) THEN Raise("FileNotFoundError")
    ELSE IF ~json_load_ok(fs, note_id) THEN Raise("JSONDecodeError")
    ELSE Return(fs[note_id].obj)

\* the length of what isoformat() gives: 19 characters, and 7 more when
\* the microseconds are not zero
IsoLen == 19
IsoUsLen == 26
isoformat_len(s) == IF Len(s) = 1 THEN IsoLen ELSE IsoUsLen

\* the characters json.dump(..., indent=2) writes for a list of tags: "[]",
\* or each tag quoted on a line of its own, indented by four
RECURSIVE dump_tags_len(_)
dump_tags_len(tags) ==
    IF Len(tags) = 0 THEN 2
    ELSE IF Len(tags) = 1 THEN 12 + Len(tags[1])
    ELSE 8 + Len(Head(tags)) + dump_tags_len(Tail(tags))

\* the characters json.dump writes for a note, up to what is the same for
\* every note of these keys
dump_len(obj) ==
    Len(obj["title"]) + Len(obj["content"]) + dump_tags_len(obj["tags"])
    + isoformat_len(obj["created_at"]) + isoformat_len(obj["updated_at"])

\* the characters a file holds
file_len(f) ==
    IF f.kind = "json" THEN dump_len(f.obj)
    ELSE IF f.kind = "truncated" THEN 0
    ELSE f.len

\* The file after the writer that opened it with mode 'w' writes its note
\* and closes it.  The write starts at offset 0 and does not cut the file:
\* when another writer has written a longer note since the open, the tail
\* of that note stays behind this one, and the file no longer decodes.
close_w(f, note) ==
    IF file_len(f) > dump_len(note)
    THEN [kind |-> "garbage", len |-> file_len(f)]
    ELSE Json(note)

\* the calls after caller p has ended with out and unlinked the file: the
\* writers that hold it open now write to a file no path leads to
Unlinked(p, out) ==
    [q \in Callers |->
        IF q = p THEN [calls[p] EXCEPT !.pc = "done", !.out = Some(out)]
        ELSE IF calls[q].pc = "dump" THEN [calls[q] EXCEPT !.orphan = TRUE]
        ELSE calls[q]]

\* handle_create_note: the id and the note are built from the clock
handle_create_note_build(p) ==
    /\ At(p, "handle_create_note", "start")
    /\ calls' = [calls EXCEPT
          ![p].pc = "open",
          ![p].note = Some(handle_create_note_record(clock, calls[p].title.v,
                                calls[p].content.v, calls[p].tags))]
    /\ UNCHANGED <<clock, files, expected, last>>

\* handle_create_note: open(note_path, 'w')
handle_create_note_open(p) ==
    /\ At(p, "handle_create_note", "open")
    /\ files' = Put(files, calls[p].id, Truncated)
    /\ calls' = [calls EXCEPT ![p].pc = "dump"]
    /\ UNCHANGED <<clock, expected, last>>

\* handle_create_note: json.dump, the file closed, the return
handle_create_note_dump(p) ==
    /\ At(p, "handle_create_note", "dump")
    /\ files' = IF calls[p].orphan THEN files
                ELSE Put(files, calls[p].id,
                         close_w(files[calls[p].id], calls[p].note.v))
    /\ Done(p, Return([id |-> calls[p].id, title |-> calls[p].title.v]))
    /\ UNCHANGED <<clock, expected, last>>

\* update_note: "if not note_path.exists()"
update_note_exists(p) ==
    /\ At(p, "update_note", "start")
    /\ IF exists(files, calls[p].id)
       THEN calls' = [calls EXCEPT ![p].pc = "load"]
       ELSE Done(p, NotFound(calls[p].id))
    /\ UNCHANGED <<clock, files, expected, last>>

\* update_note: the note is read and the given fields are set in the copy
\* the handler holds; with no field given the call returns here
update_note_load(p) ==
    LET c == calls[p]
        r == open_r(files, c.id)
        updates == update_note_updates(c.title, c.content, c.tags)
    IN
    /\ At(p, "update_note", "load")
    /\ IF r.kind = "raise" THEN Done(p, r)
       ELSE IF update_note_writes(updates)
       THEN calls' = [calls EXCEPT
               ![p].pc = "open",
               ![p].note = Some(Put(update_note_fields(r.value, c.title,
                                                       c.content, c.tags),
                                    "updated_at", isoformat(clock)))]
       ELSE Done(p, Return([msg |-> "no updates"]))
    /\ UNCHANGED <<clock, files, expected, last>>

\* update_note: open(note_path, 'w'), which also creates a file that is
\* no longer there
update_note_open(p) ==
    /\ At(p, "update_note", "open")
    /\ files' = Put(files, calls[p].id, Truncated)
    /\ calls' = [calls EXCEPT ![p].pc = "dump"]
    /\ UNCHANGED <<clock, expected, last>>

\* update_note: json.dump, the file closed, the return
update_note_dump(p) ==
    LET c == calls[p] IN
    /\ At(p, "update_note", "dump")
    /\ files' = IF c.orphan THEN files
                ELSE Put(files, c.id, close_w(files[c.id], c.note.v))
    /\ Done(p, Return([msg |-> "updated", id |-> c.id,
                       updates |-> update_note_updates(c.title, c.content, c.tags)]))
    /\ UNCHANGED <<clock, expected, last>>

\* delete_note: "if not note_path.exists()"
delete_note_exists(p) ==
    /\ At(p, "delete_note", "start")
    /\ IF exists(files, calls[p].id)
       THEN calls' = [calls EXCEPT ![p].pc = "load"]
       ELSE Done(p, NotFound(calls[p].id))
    /\ UNCHANGED <<clock, files, expected, last>>

\* delete_note: the note is read for its title
delete_note_load(p) ==
    LET r == open_r(files, calls[p].id) IN
    /\ At(p, "delete_note", "load")
    /\ IF r.kind = "raise" THEN Done(p, r)
       ELSE IF MissingKey(r.value, <<"title">>) THEN Done(p, Raise("KeyError"))
       ELSE calls' = [calls EXCEPT ![p].pc = "unlink", ![p].note = Some(r.value)]
    /\ UNCHANGED <<clock, files, expected, last>>

\* delete_note: note_path.unlink() and the return
delete_note_unlink(p) ==
    LET c == calls[p] IN
    /\ At(p, "delete_note", "unlink")
    /\ IF exists(files, c.id)
       THEN /\ files' = unlink(files, c.id)
            /\ calls' = Unlinked(p, Return([msg |-> "deleted", id |-> c.id,
                                            title |-> c.note.v["title"]]))
       ELSE /\ files' = files
            /\ Done(p, Raise("FileNotFoundError"))
    /\ UNCHANGED <<clock, expected, last>>

\* get_note: "if not note_path.exists()"
get_note_exists(p) ==
    /\ At(p, "get_note", "start")
    /\ IF exists(files, calls[p].id)
       THEN calls' = [calls EXCEPT ![p].pc = "load"]
       ELSE Done(p, NotFound(calls[p].id))
    /\ UNCHANGED <<clock, files, expected, last>>

\* get_note: the note is read and the text made of it
get_note_load(p) ==
    /\ At(p, "get_note", "load")
    /\ IF exists(files, calls[p].id)
       THEN Done(p, get_note_out(files, calls[p].id))
       ELSE Done(p, Raise("FileNotFoundError"))
    /\ UNCHANGED <<clock, files, expected, last>>

NextConc ==
    \/ \E p \in Callers : Begin(p)
    \/ \E p \in Callers : handle_create_note_build(p)
    \/ \E p \in Callers : handle_create_note_open(p)
    \/ \E p \in Callers : handle_create_note_dump(p)
    \/ \E p \in Callers : update_note_exists(p)
    \/ \E p \in Callers : update_note_load(p)
    \/ \E p \in Callers : update_note_open(p)
    \/ \E p \in Callers : update_note_dump(p)
    \/ \E p \in Callers : delete_note_exists(p)
    \/ \E p \in Callers : delete_note_load(p)
    \/ \E p \in Callers : delete_note_unlink(p)
    \/ \E p \in Callers : get_note_exists(p)
    \/ \E p \in Callers : get_note_load(p)

SpecConc == Init /\ [][NextConc]_vars

----------------------------------------------------------------------------
(* The classifier by itself *)

\* the notes the classifier is asked about
TagTitles ==
    { << >>,
      <<"H", "i", " ", "c", "o", "d", "e">>,
      <<"b", "a", "n", "k", " ", "b", "u", "d", "g", "e", "t">>,
      <<"S", "t", "u", "d", "y">> }
TagContents ==
    { << >>,
      <<"m", "y", " ", "b", "u", "d", "g", "e", "t", " ", "a", "t", " ", "t", "h", "e", " ", "b", "a", "n", "k">>,
      <<"l", "e", "a", "r", "n", " ", "p", "y", "t", "h", "o", "n">> }

\* what the model answers
ResponseTexts ==
    { <<"[", "\"", "F", "i", "n", "a", "n", "c", "e", "\"", ",", "\"", "B", "o", "g", "u", "s", "\"", "]">>,
      <<"I", "'", "d", " ", "s", "a", "y", " ", "C", "o", "d", "i", "n", "g", " ", "a", "n", "d", " ", "E", "d", "u", "c", "a", "t", "i", "o", "n">>,
      <<"[", "\"", "C", "o", "d", "i", "n", "g", "\"", ",", " ", "\"", "E", "d", "u", "c", "a", "t", "i", "o", "n", "\"", ",", " ", "\"", "F", "i", "n", "a", "n", "c", "e", "\"", ",", " ", "\"", "G", "r", "e", "e", "t", "i", "n", "g", "\"", "]">>,
      <<"[", "\"", "f", "i", "n", "a", "n", "c", "e", "\"", "]">>,
      <<"\"", "C", "o", "d", "i", "n", "g", "\"">>,
      <<"4", "2">>,
      <<"{", "\"", "F", "i", "n", "a", "n", "c", "e", "\"", ":", " ", "1", "}">>,
      <<"f", "i", "n", "a", "n", "c", "e", " ", "c", "o", "d", "i", "n", "g", " ", "E", "D", "U", "C", "A", "T", "I", "O", "N">>,
      <<" ", "[", "\"", "G", "r", "e", "e", "t", "i", "n", "g", "\"", "]", "\n">>,
      <<"[", "[", "\"", "F", "i", "n", "a", "n", "c", "e", "\"", "]", ",", " ", "7", ",", " ", "\"", "E", "d", "u", "c", "a", "t", "i", "o", "n", "\"", "]">> }

\* an answer of more open brackets than the decoder can follow
DeepText == [i \in 1..(RecursionLimit + 1) |-> "["]

\* the outcomes of client.chat
Completions ==
    {ChatError, ChatResponse(None), ChatResponse(Some(DeepText))}
    \cup {ChatResponse(Some(t)) : t \in ResponseTexts}

NextTag ==
    \/ \E t \in TagTitles, c \in TagContents, chat \in Completions :
          stb_analyze(t, c, chat)
    \/ \E t \in TagTitles, c \in TagContents, chat \in Completions :
          sb_analyze(t, c, chat)

SpecTag == Init /\ [][NextTag]_vars

----------------------------------------------------------------------------
(* The bridges' create_note *)

\* the notes the bridges are asked to create
BridgeTitles == { <<"H", "i", " ", "c", "o", "d", "e">>, <<"b", "a", "n", "k", " ", "b", "u", "d", "g", "e", "t">> }
BridgeContents == { <<"l", "e", "a", "r", "n", " ", "p", "y", "t", "h", "o", "n">> }

\* whether Client() can be made
Clients == {"ok", "raise"}

NextCreate ==
    \/ \E t \in BridgeTitles, c \in BridgeContents, g \in OptTags,
          a \in BOOLEAN, k \in Clients, chat \in Completions :
          stb_create_note(t, c, g, a, k, chat)
    \/ \E t \in BridgeTitles, c \in BridgeContents, g \in OptTags,
          a \in BOOLEAN, k \in Clients, chat \in Completions :
          sb_create_note(t, c, g, a, k, chat)

SpecCreate == Init /\ [][NextCreate]_vars

----------------------------------------------------------------------------
(* The catalog of note_server.py and its translation for the model         *)

\* the descriptions of the parameters in list_tools
StringParam(description) == [type |-> "string", description |-> description]
StringsParam(description) ==
    [type |-> "array", items |-> [type |-> "string"], description |-> description]

\* note_server.list_tools: each inputSchema is a dict
list_tools ==
    << [name |-> "create_note",
        description |-> "Create a new note with title, content, and optional tags",
        inputSchema |->
            [type |-> "object",
             properties |-> [title |-> StringParam("Note title"),
                             content |-> StringParam("Note content"),
                             tags |-> StringsParam("Optional tags for the note")],
             required |-> <<"title", "content">>]],
       [name |-> "search_notes",
        description |-> "Search notes by content, title, or tags",
        inputSchema |->
            [type |-> "object",
             properties |-> [query |-> StringParam("Search query")],
             required |-> <<"query">>]],
       [name |-> "list_recent_notes",
        description |-> "List the most recent notes",
        inputSchema |->
            [type |-> "object",
             properties |-> [limit |->
                 [type |-> "integer",
                  description |-> "Maximum number of notes to return",
                  default |-> DefaultLimit]]]],
       [name |-> "get_note",
        description |-> "Get the full content of a specific note",
        inputSchema |->
            [type |-> "object",
             properties |-> [note_id |-> StringParam("Note ID")],
             required |-> <<"note_id">>]],
       [name |-> "update_note",
        description |-> "Update an existing note's title, content, or tags",
        inputSchema |->
            [type |-> "object",
             properties |-> [note_id |-> StringParam("Note ID"),
                             title |-> StringParam("New title"),
                             content |-> StringParam("New content"),
                             tags |-> StringsParam("New tags")],
             required |-> <<"note_id">>]],
       [name |-> "delete_note",
        description |-> "Delete a note by ID",
        inputSchema |->
            [type |-> "object",
             properties |-> [note_id |-> StringParam("Note ID")],
             required |-> <<"note_id">>]] >>

\* simple_note_server.list_tools
simple_list_tools ==
    << [name |-> "create_note",
        description |-> "Create a new note",
        inputSchema |->
            [type |-> "object",
             properties |-> [title |-> [type |-> "string"],
                             content |-> [type |-> "string"]],
             required |-> <<"title", "content">>]],
       [name |-> "list_notes",
        description |-> "List all notes",
        inputSchema |-> [type |-> "object", properties |-> << >>]] >>

\* the attributes of a dict: its methods.  Its keys are reached by
\* subscript and are not attributes.
DictAttributes ==
    {"clear", "copy", "fromkeys", "get", "items", "keys", "pop", "popitem",
     "setdefault", "update", "values"}

\* hasattr(d, name) for a dict d
hasattr(d, name) == name \in DictAttributes

\* the parameters tools_to_ollama_format gives for an inputSchema: filled
\* in only when the schema has an attribute named properties
ollama_parameters(inputSchema) ==
    IF hasattr(inputSchema, "properties")
    THEN [type |-> "object",
          properties |-> inputSchema.properties,
          required |-> Get(inputSchema, "required", << >>)]
    ELSE << >>

\* OllamaMCPBridge.tools_to_ollama_format on self.tools = tools; none of
\* the descriptions is empty, so each is passed on as it is
tools_to_ollama_format_out(tools) ==
    [n \in DOMAIN tools |->
        [type |-> "function",
         function |-> [name |-> tools[n].name,
                       description |-> tools[n].description,
                       parameters |-> ollama_parameters(tools[n].inputSchema)]]]

\* the servers connect_to_server may be given
Servers == {"note_server", "simple_note_server"}

\* self.tools after connect_to_server
ToolsOf(server) ==
    IF server = "note_server" THEN list_tools ELSE simple_list_tools

\* chat_loop translates the catalog for each request to the model
tools_to_ollama_format(server) ==
    /\ last' = [op |-> "tools_to_ollama_format", tools |-> ToolsOf(server),
                out |-> tools_to_ollama_format_out(ToolsOf(server))]
    /\ UNCHANGED <<clock, files, expected, calls>>

----------------------------------------------------------------------------
(* Dispatch: execute_tool of the bridges, call_tool of note_server.py      *)

\* an exception, and str(e): what is printed of it
Exc(type, msg, name) == [type |-> type, msg |-> msg, name |-> name]
str(e) == [msg |-> e.msg, name |-> e.name]

\* the arguments of a tool call as the model sends them: a mapping, or a
\* text that should encode one
Mapping(fn) == [t |-> "dict", v |-> fn]
RawText(text) == [t |-> "str", v |-> text]

\* f(**arguments) binds: every parameter without default is given, and
\* nothing that is not a parameter
binds(arguments, required, optional) ==
    /\ required \subseteq DOMAIN arguments
    /\ DOMAIN arguments \subseteq required \cup optional

\* arguments.get("tags"): None when the key is absent
ArgOrNone(arguments, key) ==
    IF key \in DOMAIN arguments THEN Some(arguments[key]) ELSE None

\* the ids of a sequence of notes
IdsOf(notes) == [n \in DOMAIN notes |-> notes[n]["id"]]

\* the text of a listing or search: that nothing was found, or the notes
NotesText(notes) ==
    IF Len(notes) = 0 THEN [msg |-> "none"]
    ELSE [msg |-> "found", ids |-> IdsOf(notes)]

\* search_by_tag of either bridge: the notes a tag of which is the tag
\* asked for, newest first
search_by_tag_found(fs, order, tag) ==
    sorted_reverse(SelectSeq(Decoded(fs, order),
        LAMBDA note : \E n \in DOMAIN Get(note, "tags", << >>) :
                          Get(note, "tags", << >>)[n] = tag))

\* create_note of a bridge as a tool: [files, out]
bridge_create_note_tool(fs, r) ==
    IF create_note_raised(r).some
    THEN [files |-> fs, out |-> Raise(Exc("Exception", "create_note", r.note.title))]
    ELSE [files |-> Put(fs, r.note.id, Json(r.note)),
          out |-> Return([msg |-> "created", id |-> r.note.id,
                          title |-> r.note.title, tags |-> r.note.tags])]

\* the names execute_tool of either bridge has a branch for
BridgeTools == {"create_note", "list_notes", "search_notes", "search_by_tag"}

\* a slip: an unknown name raises
unknown_tool_raised(tool_name) ==
    Raise(Exc("ValueError", "unknown tool", tool_name))

\* the last branch of execute_tool: the text "Unknown tool: <name>"
unknown_tool(tool_name) ==
    Return([msg |-> "unknown tool", name |-> tool_name])

\* smart_tagging_bridge.execute_tool: [files, out].  Each argument is read
\* with arguments.get and a default.
stb_execute_tool(fs, now, order, tool_name, arguments, client, chat) ==
    IF tool_name = "create_note" THEN
        LET title == Get(arguments, "title", << >>)
            content == Get(arguments, "content", << >>)
        IN  bridge_create_note_tool(fs,
                bridge_create_note_result(
                    stb_analyze_content_for_tags(title, content, chat),
                    now, title, content, ArgOrNone(arguments, "tags"),
                    Get(arguments, "auto_tag", TRUE), client))
    ELSE IF tool_name = "list_notes" THEN
        [files |-> fs, out |-> Return(NotesText(sorted_reverse(Decoded(fs, order))))]
    ELSE IF tool_name = "search_notes" THEN
        [files |-> fs,
         out |-> Return(NotesText(
                    stb_search_notes_found(fs, order, Get(arguments, "query", << >>))))]
    ELSE IF tool_name = "search_by_tag" THEN
        [files |-> fs,
         out |-> Return(NotesText(
                    search_by_tag_found(fs, order, Get(arguments, "tag", << >>))))]
    ELSE [files |-> fs, out |-> unknown_tool(tool_name)]

\* f(**arguments) cannot be called: arguments is no mapping, or does not
\* bind to the parameters
TypeErrorOf(tool_name) == Raise(Exc("TypeError", "arguments", tool_name))

\* simple_bridge.execute_tool: [files, out].  The arguments are passed on
\* with **arguments, whatever they are.
sb_execute_tool(fs, now, order, tool_name, arguments, client, chat) ==
    IF tool_name = "create_note" THEN
        IF arguments.t # "dict"
           \/ ~binds(arguments.v, {"title", "content"}, {"tags", "auto_tag"})
        THEN [files |-> fs, out |-> TypeErrorOf(tool_name)]
        ELSE bridge_create_note_tool(fs,
                bridge_create_note_result(
                    sb_analyze_content_for_tags(arguments.v["title"],
                                                arguments.v["content"], chat),
                    now, arguments.v["title"], arguments.v["content"],
                    ArgOrNone(arguments.v, "tags"),
                    Get(arguments.v, "auto_tag", TRUE), client))
    ELSE IF tool_name = "list_notes" THEN
        [files |-> fs, out |-> Return(NotesText(sorted_reverse(Decoded(fs, order))))]
    ELSE IF tool_name = "search_notes" THEN
        IF arguments.t # "dict" \/ ~binds(arguments.v, {"query"}, {})
        THEN [files |-> fs, out |-> TypeErrorOf(tool_name)]
        ELSE [files |-> fs,
              out |-> Return(NotesText(
                         sb_search_notes_found(fs, order, arguments.v["query"])))]
    ELSE IF tool_name = "search_by_tag" THEN
        IF arguments.t # "dict" \/ ~binds(arguments.v, {"tag"}, {})
        THEN [files |-> fs, out |-> TypeErrorOf(tool_name)]
        ELSE [files |-> fs,
              out |-> Return(NotesText(
                         search_by_tag_found(fs, order, arguments.v["tag"])))]
    ELSE [files |-> fs, out |-> unknown_tool(tool_name)]

\* note_server.call_tool, lines 174-185: the function each name is routed to
Route ==
    [create_note |-> "handle_create_note",
     search_notes |-> "handle_search_notes",
     list_recent_notes |-> "handle_list_recent_notes",
     get_note |-> "handle_get_note",
     update_note |-> "handle_update_note",
     delete_note |-> "handle_delete_note"]

\* the names note_server.py binds at module level
ModuleNames ==
    {"asyncio", "json", "datetime", "Path", "Dict", "List", "Optional",
     "types", "Server", "mcp", "NOTES_DIR", "app",
     "get_note_path", "list_all_notes", "search_notes_by_content",
     "list_resources", "read_resource", "list_tools", "call_tool",
     "handle_create_note", "search_notes", "update_note",
     "list_recent_notes", "get_note", "delete_note", "main"}

\* note_server.call_tool: [files, out].  The name of the handler is looked
\* up when the call is reached; of the six, handle_create_note is bound.
note_call_tool(fs, now, name, arguments) ==
    IF name \notin DOMAIN Route
    THEN [files |-> fs, out |-> Raise(Exc("ValueError", "unknown tool", name))]
    ELSE IF Route[name] \notin ModuleNames
    THEN [files |-> fs, out |-> Raise(Exc("NameError", "not defined", Route[name]))]
    ELSE IF ~binds(arguments, {"title", "content"}, {"tags"})
    THEN [files |-> fs, out |-> TypeErrorOf(name)]
    ELSE LET note == handle_create_note_record(now, arguments["title"],
                         arguments["content"], ArgOrNone(arguments, "tags"))
         IN  [files |-> Put(fs, note.id, Json(note)),
              out |-> Return([msg |-> "created", id |-> note.id,
                              title |-> note.title, tags |-> note.tags])]

\* How the mcp library brings the outcome of the server's call_tool to the
\* client's session.call_tool: as a result whose content is the text
\* returned or the text of the exception, or as an error raised in the
\* client.
Deliveries == {"result", "error"}

session_call_tool(out, how) ==
    IF how = "result"
    THEN IF out.kind = "raise" THEN Return(str(out.exc)) ELSE out
    ELSE IF out.kind = "raise"
    THEN Raise(Exc("McpError", out.exc.msg, out.exc.name))
    ELSE Raise(Exc("McpError", "invalid result", "call_tool"))

\* OllamaMCPBridge.call_tool: the text of the result, or of the exception
mcp_call_tool(tool_name, delivered) ==
    IF delivered.kind = "raise"
    THEN Return([msg |-> "error calling tool", name |-> tool_name,
                 error |-> str(delivered.exc)])
    ELSE delivered

\* dict(tool_call.function.arguments) in smart_tagging_bridge's chat loop:
\* a copy of a mapping, {} of the empty text, ValueError of any other text
dict_of(arguments) ==
    IF arguments.t = "dict" THEN Return(arguments.v)
    ELSE IF arguments.v = << >> THEN Return(<< >>)
    ELSE Raise(Exc("ValueError", "dictionary update sequence", "dict"))

\* the arguments OllamaMCPBridge.chat_loop goes on with (lines 149-153): a
\* text is decoded, and {} taken in its place when it does not decode
loads_or_empty(arguments) ==
    IF arguments.t # "str" THEN arguments
    ELSE LET r == json_loads(arguments.v) IN
         IF r.kind = "ok" THEN r.v ELSE Mapping(<< >>)

\* One tool call in chat_with_ollama of smart_tagging_bridge.py (lines
\* 323-329).  An exception of dict() or of execute_tool is caught by the
\* loop (line 346), which prints it: the call has no result.
stb_tool_call(order, tool_name, arguments, client, chat) ==
    LET d == dict_of(arguments)
        r == IF d.kind = "raise" THEN [files |-> files, out |-> d]
             ELSE stb_execute_tool(files, clock, order, tool_name, d.value,
                                   client, chat)
    IN
    /\ files' = r.files
    /\ last' = [op |-> "stb_tool_call", name |-> tool_name,
                arguments |-> arguments, invoked |-> d.kind = "return",
                out |-> r.out]
    /\ UNCHANGED <<clock, expected, calls>>

\* One tool call in chat_with_ollama of simple_bridge.py (lines 309-315):
\* the arguments go to execute_tool as they came.
sb_tool_call(order, tool_name, arguments, client, chat) ==
    LET r == sb_execute_tool(files, clock, order, tool_name, arguments,
                             client, chat)
    IN
    /\ files' = r.files
    /\ last' = [op |-> "sb_tool_call", name |-> tool_name,
                arguments |-> arguments, invoked |-> TRUE, out |-> r.out]
    /\ UNCHANGED <<clock, expected, calls>>

\* One tool call in OllamaMCPBridge.chat_loop (lines 144-160), the server
\* being note_server.py.  Arguments that are no mapping do not pass the
\* client's session.call_tool.
mcp_tool_call(tool_name, arguments, how) ==
    LET a == loads_or_empty(arguments)
        served == IF a.t = "dict"
                  THEN note_call_tool(files, clock, tool_name, a.v)
                  ELSE [files |-> files,
                        out |-> Raise(Exc("ValidationError", "arguments", tool_name))]
        delivered == IF a.t = "dict" THEN session_call_tool(served.out, how)
                     ELSE served.out
    IN
    /\ files' = served.files
    /\ last' = [op |-> "mcp_tool_call", name |-> tool_name,
                arguments |-> arguments, invoked |-> a.t = "dict",
                served |-> served.out,
                out |-> mcp_call_tool(tool_name, delivered)]
    /\ UNCHANGED <<clock, expected, calls>>

\* the names the model may call: the tools of the bridges and of
\* note_server.py, and one that is no tool
ToolNames ==
    {"create_note", "list_notes", "search_notes", "search_by_tag",
     "list_recent_notes", "get_note", "update_note", "delete_note",
     "nonexistent_tool"}

\* a list of more tags than a note is to have
FourTags == << <<"a">>, <<"b">>, <<"c">>, <<"d">> >>

\* the arguments the model may send
ToolArguments ==
   << Mapping(<< >>),
      Mapping([title |-> <<"H", "i">>]),
      Mapping([title |-> <<"H", "i">>, content |-> <<"x", "b">>]),
      Mapping([title |-> <<"H", "i">>, content |-> <<"x", "b">>,
               tags |-> FourTags]),
      Mapping([title |-> <<"H", "i">>, content |-> <<"x", "b">>,
               auto_tag |-> FALSE]),
      Mapping([title |-> <<"H", "i">>, content |-> <<"x", "b">>,
               colour |-> <<"r", "e", "d">>]),
      Mapping([query |-> <<"h">>]),
      Mapping([tag |-> <<"C", "o", "d", "i", "n", "g">>]),
      Mapping([note_id |-> AbsentId]),
      RawText(<< >>),
      RawText(<<"n", "o", " ", "j", "s", "o", "n">>),
      RawText(<<"{", "}">>) >>

\* what the classifier's completion call comes to during a tool call
ToolCompletions ==
    {ChatError, ChatResponse(Some(<<"[", "\"", "C", "o", "d", "i", "n", "g", "\"", "]">>))}

\* The three chat loops on one NOTES_DIR, one tool call at a time; notes
\* are also stored and updated by note_server's functions themselves.
NextDispatch ==
    \/ \E v \in Servers : tools_to_ollama_format(v)
    \/ \E o \in Orders(files), n \in ToolNames, a \in DOMAIN ToolArguments,
          chat \in ToolCompletions :
          stb_tool_call(o, n, ToolArguments[a], "ok", chat)
    \/ \E o \in Orders(files), n \in ToolNames, a \in DOMAIN ToolArguments,
          chat \in ToolCompletions :
          sb_tool_call(o, n, ToolArguments[a], "ok", chat)
    \/ \E n \in ToolNames, a \in DOMAIN ToolArguments, how \in Deliveries :
          mcp_tool_call(n, ToolArguments[a], how)
    \/ \E i \in AskIds : update_note(i, None, None, Some(FourTags)) /\ UNCHANGED calls

SpecDispatch == Init /\ [][NextDispatch]_vars

----------------------------------------------------------------------------
(* create_note of smart_tagging_bridge.py, waiting for the model           *)

\* The call of client.chat is a request to the ollama service and the wait
\* for its answer.  Client() is made without a timeout and chat is called
\* without one, so the wait ends only when the service answers or the
\* connection fails; there is no step by which the caller gives up.

\* the caller of the chat loop
LiveCaller == 1

\* what the service answers, when it does
LiveCompletions ==
    {ChatError,
     ChatResponse(Some(<<"[", "\"", "C", "o", "d", "i", "n", "g", "\"", "]">>)),
     ChatResponse(Some(<<"n", "o", " ", "i", "d", "e", "a">>))}

\* lines 83-91: the id is taken, and either the request is sent to the
\* model (pc "chat") or the tags are settled at once (pc "write")
stb_create_note_begin(p, title, content, tags, auto_tag, client) ==
    LET given == IF tags.some THEN tags.v ELSE << >>
        wanted == auto_tag /\ given = << >>
    IN
    /\ calls[p].pc \in {"idle", "done"}
    /\ calls' = [calls EXCEPT ![p] =
           [op |-> "stb_create_note",
            pc |-> IF wanted /\ client = "ok" THEN "chat" ELSE "write",
            id |-> strftime_ms(clock), title |-> title, content |-> content,
            tags |-> given, auto_tagged |-> auto_tagged(tags, auto_tag)]]
    /\ UNCHANGED <<clock, files, expected, last>>

\* lines 35-79 and 92: the service answers, or the connection fails, and
\* the classifier returns its tags
stb_create_note_chat(p, chat) ==
    /\ At(p, "stb_create_note", "chat")
    /\ calls' = [calls EXCEPT
           ![p].pc = "write",
           ![p].tags = stb_analyze_content_for_tags(calls[p].title,
                           calls[p].content, chat).tags]
    /\ UNCHANGED <<clock, files, expected, last>>

\* lines 98-112: the note is written and the text returned
stb_create_note_write(p) ==
    LET c == calls[p]
        note == [id |-> c.id, title |-> c.title, content |-> c.content,
                 tags |-> c.tags, created_at |-> isoformat(clock),
                 auto_tagged |-> c.auto_tagged]
    IN
    /\ At(p, "stb_create_note", "write")
    /\ files' = Put(files, c.id, Json(note))
    /\ calls' = [calls EXCEPT ![p].pc = "done"]
    /\ last' = [op |-> "stb_create_note_write",
                out |-> Return([id |-> c.id, title |-> c.title,
                                tags |-> c.tags])]
    /\ UNCHANGED <<clock, expected>>

NextLive ==
    \/ Tick /\ UNCHANGED calls
    \/ \E t \in BridgeTitles, c \in BridgeContents, g \in OptTags,
          a \in BOOLEAN, k \in Clients :
          stb_create_note_begin(LiveCaller, t, c, g, a, k)
    \/ \E chat \in LiveCompletions : stb_create_note_chat(LiveCaller, chat)
    \/ stb_create_note_write(LiveCaller)

\* The caller's own steps are taken when they can be; the service is under
\* no obligation to answer.
SpecLive ==
    /\ Init
    /\ [][NextLive]_vars
    /\ WF_vars(stb_create_note_write(LiveCaller))

----------------------------------------------------------------------------
(* What the properties below speak of *)

IsNote(fs, i) == i \in DOMAIN fs /\ fs[i].kind = "json"
Notes(fs) == {i \in DOMAIN fs : IsNote(fs, i)}

\* key k is the same in both objects: absent from both, or present and equal
SameKey(a, b, k) ==
    /\ (k \in DOMAIN a) <=> (k \in DOMAIN b)
    /\ k \in DOMAIN a => a[k] = b[k]

\* the value of the line of a text that carries the label
HasLine(text, label) == \E n \in DOMAIN text : text[n].label = label
Line(text, label) == text[CHOOSE n \in DOMAIN text : text[n].label = label].value

Returned(out, msg) == out.kind = "return" /\ out.value.msg = msg

----------------------------------------------------------------------------
(* Properties *)

\* C1: after handle_create_note(title, content) with no tags argument,
\* get_note of the returned id shows that title and that content and no
\* tags (the "Tags:" line is printed for a non-empty list only).
C1_CreateThenGet ==
    (last.op = "handle_create_note" /\ ~last.tags.some) =>
        LET out == get_note_out(files, last.out.value.id) IN
        /\ Returned(out, "note")
        /\ Line(out.value.text, "title") = last.title.v
        /\ Line(out.value.text, "content") = last.content.v
        /\ Line(out.value.text, "ID") = last.out.value.id
        /\ ~HasLine(out.value.text, "Tags")
        /\ files[last.out.value.id].obj["tags"] = << >>

C1_Witness ==
    /\ last.op = "handle_create_note"
    /\ ~last.tags.some
    /\ last.title.v = <<"B", "u">>
    /\ last.content.v = <<"x", "b">>
    /\ Returned(get_note_out(files, last.out.value.id), "note")

\* C2: two creates never produce the same id, so no create overwrites an
\* earlier record and the notes stored number the creates minus the deletes.
C2_CreatesNeverCollide ==
    /\ last.op \in {"handle_create_note", "simple_create_note"} => ~last.overwrote
    /\ Cardinality(Notes(files)) = expected

\* the step is the call of update_note that `last` records after it
UpdateStep ==
    /\ last'.op = "update_note"
    /\ update_note(last'.id, last'.title, last'.content, last'.tags)

\* the step is the call of delete_note that `last` records after it
DeleteStep ==
    /\ last'.op = "delete_note"
    /\ delete_note(last'.id)

\* C3: update_note of an existing note stores exactly the arguments given,
\* and leaves the note's other fields, its id and created_at, and every
\* other file as they were.
C3_UpdateFrame ==
    [][(UpdateStep /\ IsNote(files, last'.id)) =>
          LET i == last'.id
              t == last'.title
              c == last'.content
              g == last'.tags
          IN  /\ DOMAIN files' = DOMAIN files
              /\ \A j \in DOMAIN files \ {i} : files'[j] = files[j]
              /\ IsNote(files', i)
              /\ LET old == files[i].obj
                     new == files'[i].obj
                 IN  /\ IF t.some THEN new["title"] = t.v
                                  ELSE SameKey(old, new, "title")
                     /\ IF c.some THEN new["content"] = c.v
                                  ELSE SameKey(old, new, "content")
                     /\ IF g.some THEN new["tags"] = g.v
                                  ELSE SameKey(old, new, "tags")
                     /\ SameKey(old, new, "id")
                     /\ SameKey(old, new, "created_at")]_vars

C3_Witness ==
    /\ last.op = "update_note"
    /\ Returned(last.out, "updated")
    /\ last.title.some /\ ~last.content.some /\ ~last.tags.some
    /\ ~last.same
    /\ Cardinality(Notes(files)) >= 2
    /\ files[last.out.value.id].obj["tags"] # << >>

\* C4: update_note of an existing note with no title, content or tags
\* answers "no updates" and writes nothing: the record and its updated_at
\* are as before.
C4_EmptyUpdate ==
    [][(/\ UpdateStep
        /\ IsNote(files, last'.id)
        /\ ~last'.title.some /\ ~last'.content.some /\ ~last'.tags.some) =>
           /\ files' = files
           /\ Returned(last'.out, "no updates")]_vars

C4_Witness ==
    /\ last.op = "update_note"
    /\ Returned(last.out, "no updates")
    /\ ~last.title.some /\ ~last.content.some /\ ~last.tags.some
    /\ \E i \in Notes(files) : "updated_at" \in DOMAIN files[i].obj
                                /\ files[i].obj["updated_at"] # isoformat(clock)

\* C5, as claimed: an update_note whose given title, content and tags all
\* equal what is stored leaves updated_at as it was.
C5_UnchangedValuesKeepUpdatedAt ==
    [][(UpdateStep /\ IsNote(files, last'.id) /\ last'.same) =>
          SameKey(files[last'.id].obj, files'[last'.id].obj, "updated_at")]_vars

\* C5, amended: update_note sets updated_at to the time of the call exactly
\* when a title, a content or a tags argument is given, whether or not the
\* value given differs from the one stored; with none given it is kept.
C5_UpdatedAtFollowsPresence ==
    [][(UpdateStep /\ IsNote(files, last'.id)) =>
          IF last'.title.some \/ last'.content.some \/ last'.tags.some
          THEN /\ IsNote(files', last'.id)
               /\ files'[last'.id].obj["updated_at"] = isoformat(clock)
               /\ Returned(last'.out, "updated")
          ELSE /\ SameKey(files[last'.id].obj, files'[last'.id].obj, "updated_at")
               /\ Returned(last'.out, "no updates")]_vars

C5_Witness ==
    /\ last.op = "update_note"
    /\ Returned(last.out, "updated")
    /\ last.same
    /\ LET obj == files[last.out.value.id].obj IN
       /\ obj["updated_at"] = isoformat(clock)
       /\ obj["updated_at"] # obj["created_at"]

\* C6: after delete_note(id) has deleted a note, get_note(id) answers "not
\* found", and every other file is still there, unchanged.
C6_DeleteThenGet ==
    [][(DeleteStep /\ Returned(last'.out, "deleted")) =>
          LET i == last'.id IN
          /\ get_note_out(files', i) = NotFound(i)
          /\ DOMAIN files' = DOMAIN files \ {i}
          /\ \A j \in DOMAIN files \ {i} : files'[j] = files[j]]_vars

C6_Witness ==
    /\ last.op = "delete_note"
    /\ Returned(last.out, "deleted")
    /\ get_note_out(files, last.out.value.id) = NotFound(last.out.value.id)
    /\ Notes(files) # {}

\* query, compared without regard to case, is part of the title, of the
\* content or of a tag of the note
TagMatches(note, query) ==
    \E n \in DOMAIN Get(note, "tags", << >>) :
        Contains(lower(query), lower(note["tags"][n]))

Matches(note, query) ==
    \/ Contains(lower(query), lower(note["title"]))
    \/ Contains(lower(query), lower(note["content"]))
    \/ TagMatches(note, query)

\* the ids of the notes the last call returned; none when it raised
ItemIds(out) ==
    IF out.kind = "return" /\ "items" \in DOMAIN out.value
    THEN {out.value.items[n].id : n \in DOMAIN out.value.items}
    ELSE {}

FoundIds ==
    IF last.op = "search_notes" THEN ItemIds(last.out)
    ELSE {last.found[n] : n \in DOMAIN last.found}

SearchExact == FoundIds = {i \in Notes(files) : Matches(files[i].obj, last.query)}

\* C7: search returns a stored note if and only if the query, without
\* regard to case, is part of its title, its content or one of its tags,
\* whatever the directory holds (note_server.search_notes_by_content behind
\* search_notes, and smart_tagging_bridge.search_notes).
C7_SearchReturnsExactlyMatches ==
    last.op \in {"search_notes", "stb_search_notes"} => SearchExact

\* On a directory every file of which decodes, note_server's search does
\* return exactly the matching notes.
SearchExactOnCleanStore ==
    (last.op = "search_notes" /\ Undecodable(files) = 0) =>
        /\ last.out.kind = "return"
        /\ SearchExact

\* smart_tagging_bridge.search_notes returns exactly the matching notes,
\* undecodable files or not.
BridgeSearchExact == last.op = "stb_search_notes" => SearchExact

\* C8: simple_bridge.search_notes returns every stored note one of whose
\* tags contains the query, also when title and content do not.
C8_SimpleBridgeSearchesTags ==
    last.op = "sb_search_notes" =>
        \A i \in Notes(files) : TagMatches(files[i].obj, last.query) => i \in FoundIds

\* the instant a stored note was created at
CreatedAt(i) == fromisoformat(files[i].obj["created_at"])

\* items are the first `limit` of the stored notes, the newest first
NewestFirst(items, limit) ==
    LET ids == {items[n].id : n \in DOMAIN items} IN
    /\ Len(items) = IF limit < Cardinality(Notes(files)) THEN limit
                    ELSE Cardinality(Notes(files))
    /\ ids \subseteq Notes(files)
    /\ Cardinality(ids) = Len(items)
    /\ \A m, n \in DOMAIN items : m < n => CreatedAt(items[m].id) >= CreatedAt(items[n].id)
    /\ \A i \in ids, j \in Notes(files) \ ids : CreatedAt(i) >= CreatedAt(j)

LimitOf(limit) == IF limit.some THEN limit.v ELSE DefaultLimit

\* C9: list_recent_notes(limit), for a limit of 0 or more (10 when none is
\* given), returns the stored notes by created_at, newest first, cut to the
\* first limit of them, whatever the directory holds.
C9_RecentNewestFirst ==
    (last.op = "list_recent_notes" /\ LimitOf(last.limit) >= 0) =>
        NewestFirst(IF Returned(last.out, "recent") THEN last.out.value.items
                    ELSE << >>,
                    LimitOf(last.limit))

\* On a directory every file of which decodes, list_recent_notes does
\* return the newest notes first.
RecentNewestFirstOnCleanStore ==
    (/\ last.op = "list_recent_notes"
     /\ LimitOf(last.limit) >= 0
     /\ Undecodable(files) = 0) =>
        /\ last.out.kind = "return"
        /\ NewestFirst(IF Returned(last.out, "recent") THEN last.out.value.items
                       ELSE << >>,
                       LimitOf(last.limit))

\* C10: a listing of a directory that holds undecodable files never aborts:
\* it reports each such file on stderr, and lists exactly the notes that
\* decode (note_server.list_all_notes behind search_notes and
\* list_recent_notes, simple_note_server.list_all_notes behind list_notes,
\* smart_tagging_bridge.list_notes).
C10_ListingSkipsCorrupt ==
    /\ last.op \in {"search_notes", "list_recent_notes",
                     "simple_list_notes", "stb_list_notes"} =>
           /\ last.out.kind = "return"
           /\ last.stderr = Undecodable(files)
    /\ last.op \in {"simple_list_notes", "stb_list_notes"} =>
           ItemIds(last.out) = Notes(files)

\* simple_note_server's listing does all of that.
SimpleListingSkipsCorrupt ==
    last.op = "simple_list_notes" =>
        /\ last.out.kind = "return"
        /\ last.stderr = Undecodable(files)
        /\ ItemIds(last.out) = Notes(files)

----------------------------------------------------------------------------
(* Overlapping calls *)

\* the call of caller p ended by raising exc
Raised(p, exc) ==
    /\ calls[p].pc = "done"
    /\ calls[p].out.v.kind = "raise"
    /\ calls[p].out.v.exc = exc

\* the call of caller p ended by returning the message msg
Answered(p, msg) == calls[p].pc = "done" /\ Returned(calls[p].out.v, msg)

\* C11: a get_note that overlaps a create or an update of the note never
\* finds the note's file empty or half written: it answers from a whole
\* record, the old or the new one, or finds no note.
C11_ReadersSeeWholeRecords ==
    \A p \in Callers :
        At(p, "get_note", "done") => ~Raised(p, "JSONDecodeError")

\* C12: an update_note and a delete_note of the same stored note that
\* overlap end as one of their two serial orders does: the delete has
\* deleted the note, the update has updated it or has not found it, and
\* the note is not stored.
C12_UpdateDeleteSerial ==
    \A p, q \in Callers :
        (/\ At(p, "update_note", "done") /\ calls[p].existed
         /\ update_note_writes(update_note_updates(calls[p].title,
                                   calls[p].content, calls[p].tags))
         /\ At(q, "delete_note", "done") /\ calls[q].existed) =>
            /\ Answered(q, "deleted")
            /\ Answered(p, "updated") \/ Answered(p, "not found")
            /\ ~exists(files, calls[p].id)

\* C13: when an update_note that sets only the title and one that sets only
\* the content overlap on a stored note and both answer "updated", the note
\* stored afterwards has the new title and the new content.
C13_NoLostUpdate ==
    \A p, q \in Callers :
        (/\ At(p, "update_note", "done") /\ Answered(p, "updated")
         /\ At(q, "update_note", "done") /\ Answered(q, "updated")
         /\ calls[p].title.some /\ ~calls[p].content.some
         /\ ~calls[q].title.some /\ calls[q].content.some) =>
            /\ IsNote(files, calls[p].id)
            /\ files[calls[p].id].obj["title"] = calls[p].title.v
            /\ files[calls[p].id].obj["content"] = calls[q].content.v

----------------------------------------------------------------------------
(* The classifier *)

Analyzed == last.op \in {"stb_analyze", "sb_analyze"}

\* the call to the model returned a response
Responded == Analyzed /\ last.chat.kind = "response"

\* the text of the response, and what json.loads makes of it
Answer == response_text(last.chat)
Parsed == json_loads(Answer)

IsEntry(tag) == \E n \in DOMAIN AVAILABLE_TAGS : AVAILABLE_TAGS[n] = tag

\* the k-th smallest number of a set of numbers
Kth(K, k) == CHOOSE n \in K : Cardinality({m \in K : m <= n}) = k

\* out is the elements of s at the indices K, in their order, cut to the
\* first max of them
Picks(out, s, K, max) ==
    /\ Len(out) = IF Cardinality(K) < max THEN Cardinality(K) ELSE max
    /\ \A k \in DOMAIN out : out[k] = s[Kth(K, k)]

\* the words of the response that are entries of the vocabulary
EntryIndices(elems) ==
    {n \in DOMAIN elems : elems[n].t = "str" /\ IsEntry(elems[n].v)}

\* C14: when the model's answer parses as a JSON list, the result is the
\* elements of that list that equal an entry of the vocabulary, in the
\* order of the list, cut to the first 3; ["Finance","Bogus"] gives
\* ["Finance"].
C14_ModelTier ==
    (Responded /\ Parsed.kind = "ok" /\ Parsed.v.t = "list") =>
        /\ Picks(last.out, [n \in DOMAIN Parsed.v.v |-> Parsed.v.v[n].v],
                 EntryIndices(Parsed.v.v), 3)
        /\ Answer = <<"[", "\"", "F", "i", "n", "a", "n", "c", "e", "\"", ",", "\"", "B", "o", "g", "u", "s", "\"", "]">> => last.out = << <<"F", "i", "n", "a", "n", "c", "e">> >>

C14_Witness ==
    /\ Responded /\ Parsed.kind = "ok" /\ Parsed.v.t = "list"
    /\ Answer = <<"[", "\"", "F", "i", "n", "a", "n", "c", "e", "\"", ",", "\"", "B", "o", "g", "u", "s", "\"", "]">>
    /\ last.out = << <<"F", "i", "n", "a", "n", "c", "e">> >>

\* the entries of the vocabulary the text has in it, whatever the case
TermIndices(text) ==
    {n \in DOMAIN AVAILABLE_TAGS : Contains(lower(AVAILABLE_TAGS[n]), lower(text))}

\* C15: when the model's answer does not parse as JSON, the result is the
\* entries of the vocabulary that occur in the answer, whatever the case,
\* in the order of the vocabulary and cut to the first 2.
C15_TextScanTier ==
    (Responded /\ Parsed.kind # "ok") =>
        Picks(last.out, AVAILABLE_TAGS, TermIndices(Answer), 2)

\* That holds of the answers json.loads rejects with JSONDecodeError.
TextScanOnDecodeError ==
    (Responded /\ Parsed.kind = "JSONDecodeError") =>
        /\ last.tier = "text"
        /\ Picks(last.out, AVAILABLE_TAGS, TermIndices(Answer), 2)

\* C16: the keyword tier gives the result exactly when the call to the
\* model raised; an answer that is a JSON list is answered by the model
\* tier, also when none of its elements is kept.
C16_TierSelection ==
    Analyzed =>
        /\ last.tier = "keyword" <=> last.chat.kind = "error"
        /\ (Responded /\ Parsed.kind = "ok" /\ Parsed.v.t = "list") =>
               last.tier = "model"

\* In smart_tagging_bridge that holds of every answer json.loads parses or
\* rejects with JSONDecodeError.
TierSelectionOnDecodable ==
    (last.op = "stb_analyze"
     /\ (Responded => Parsed.kind \in {"ok", "JSONDecodeError"})) =>
        /\ last.tier = "keyword" <=> last.chat.kind = "error"
        /\ (Responded /\ Parsed.kind = "ok" /\ Parsed.v.t = "list") =>
               last.tier = "model"

\* title and content as the keyword tier looks at them
ContentLower == lower(last.title \o <<" ">> \o last.content)

\* the call to the model raised, and the note speaks of a bank and a budget
BankAndBudget ==
    /\ Analyzed /\ last.chat.kind = "error"
    /\ Contains(<<"b", "a", "n", "k">>, ContentLower)
    /\ Contains(<<"b", "u", "d", "g", "e", "t">>, ContentLower)

HasFinance == \E n \in DOMAIN last.out : last.out[n] = <<"F", "i", "n", "a", "n", "c", "e">>

\* C17, as claimed: with the model unreachable, a note that has "bank" and
\* "budget" in it is tagged Finance, whatever other keywords it has.
C17_FinanceWhateverElse == BankAndBudget => HasFinance

\* the tags before Finance that have a keyword in the note
TagsBeforeFinance ==
    {n \in 1..3 : \E w \in DOMAIN KeywordTable[n].words :
                      Contains(KeywordTable[n].words[w], ContentLower)}

\* C17, amended: such a note is tagged Finance exactly when at most one of
\* Greeting, Coding and Education has a keyword in it; the result is cut to
\* two tags and Finance comes last.
C17_FinanceUnlessCrowdedOut ==
    BankAndBudget => (HasFinance <=> Cardinality(TagsBeforeFinance) <= 1)

C17_Witness ==
    /\ BankAndBudget
    /\ Cardinality(TagsBeforeFinance) = 1
    /\ Len(last.out) = 2 /\ last.out[2] = <<"F", "i", "n", "a", "n", "c", "e">>

----------------------------------------------------------------------------
(* The bridges' create_note *)

Created == last.op \in {"stb_create_note", "sb_create_note"}

\* the note the last create_note wrote
CreatedNote == files[last.out.value.id].obj

OnlyEntries(tags) == \A n \in DOMAIN tags : IsEntry(tags[n])

\* C18: whatever the call to the model gives, the classifier returns at
\* most 3 tags, each an entry of AVAILABLE_TAGS; so a note created without
\* a tags argument stores entries of AVAILABLE_TAGS only.
C18_OnlyVocabularyTags ==
    Created =>
        /\ last.invoked => /\ Len(CreatedNote["tags"]) <= 3
                           /\ OnlyEntries(CreatedNote["tags"])
        /\ ~last.tags.some => OnlyEntries(CreatedNote["tags"])

C18_Witness ==
    /\ last.op = "stb_create_note"
    /\ last.invoked /\ ~last.tags.some
    /\ Len(CreatedNote["tags"]) = 3
    /\ OnlyEntries(CreatedNote["tags"])

\* C19: create_note calls the classifier only when auto_tag is asked for
\* and the caller gave no tags argument; with a tags argument the
\* classifier is not called and the tags are stored as given.
C19_ClassifierOnlyWithoutTags ==
    last.op = "stb_create_note" =>
        /\ last.invoked => (last.auto_tag /\ ~last.tags.some)
        /\ last.tags.some => /\ ~last.invoked
                             /\ CreatedNote["tags"] = last.tags.v

\* That holds of every call whose tags argument is absent or not empty.
ClassifierBypassedByTags ==
    (last.op = "stb_create_note" /\ (last.tags.some => last.tags.v # << >>)) =>
        /\ last.invoked => (last.auto_tag /\ ~last.tags.some)
        /\ last.tags.some => /\ ~last.invoked
                             /\ CreatedNote["tags"] = last.tags.v

\* C20: the note create_note writes has auto_tagged true exactly when its
\* tags are the classifier's; it is false when the classifier was not run
\* or could not be run.
C20_AutoTaggedIffClassified ==
    Created => (CreatedNote["auto_tagged"] <=> last.invoked)

\* That holds of every call in which Client() could be made.
AutoTaggedWhenClientMade ==
    (Created /\ ~last.failed) => (CreatedNote["auto_tagged"] <=> last.invoked)

\* C21: whatever becomes of the classifier's completion call (an answer
\* that decodes, one that does not, an error, no client at all),
\* create_note returns its text of success, and the note of the returned
\* id is the one note stored with the title and content asked for.
C21_ClassifierFailureNotPropagated ==
    Created =>
        /\ last.out.kind = "return"
        /\ {i \in Notes(files) :
               /\ files[i].obj["title"] = last.out.value.title
               /\ files[i].obj["content"] = last.content} = {last.out.value.id}

\* a create_note whose completion call raised, and one with no client
C21_Witness ==
    /\ last.op = "stb_create_note"
    /\ last.out.kind = "return"
    /\ \/ last.invoked /\ last.chat = ChatError
       \/ last.failed
    /\ files[last.out.value.id].obj["content"] = last.content

\* C22: a create_note that asks for tags never waits without end: it goes
\* on to write its note and return, also when the service never answers.
C22_CreateNeverStalls ==
    At(LiveCaller, "stb_create_note", "chat")
        ~> At(LiveCaller, "stb_create_note", "done")

\* A create_note whose tags are settled does write its note and return.
SettledCreateReturns ==
    At(LiveCaller, "stb_create_note", "write")
        ~> At(LiveCaller, "stb_create_note", "done")

----------------------------------------------------------------------------
(* Dispatch *)

ToolCall == last.op \in {"stb_tool_call", "sb_tool_call", "mcp_tool_call"}

\* the names the dispatcher of the last call knows
Registry == IF last.op = "mcp_tool_call" THEN DOMAIN Route ELSE BridgeTools

\* a text that says the tool is unknown and names it
UnknownToolText(text, name) ==
    \/ text.msg = "unknown tool" /\ text.name = name
    \/ /\ text.msg = "error calling tool"
       /\ text.error.msg = "unknown tool" /\ text.error.name = name

\* C23: a call of a name the dispatcher does not know returns a text that
\* says so, raises nothing and leaves every file as it was.
C23_UnknownToolIsText ==
    [][(ToolCall /\ last.invoked /\ last.name \notin Registry)' =>
           /\ last'.out.kind = "return"
           /\ UnknownToolText(last'.out.value, last'.name)
           /\ files' = files]_vars

\* an unknown name called with a note in the store
C23_Witness ==
    /\ last.op = "stb_tool_call" /\ last.invoked
    /\ last.name = "nonexistent_tool"
    /\ last.out = Return([msg |-> "unknown tool", name |-> "nonexistent_tool"])
    /\ Notes(files) # {}

\* C24: execute_tool returns a text for every tool it knows and every
\* mapping of arguments: no exception leaves it.
C24_DispatchAlwaysText ==
    (/\ last.op \in {"stb_tool_call", "sb_tool_call"}
     /\ last.invoked /\ last.arguments.t = "dict"
     /\ last.name \in BridgeTools)
        => last.out.kind = "return"

\* That holds of smart_tagging_bridge.execute_tool, which reads each
\* argument with arguments.get.
StbDispatchAlwaysText ==
    (last.op = "stb_tool_call" /\ last.invoked) => last.out.kind = "return"

\* the arguments came as a text that does not decode
Undecodable_arguments ==
    /\ ToolCall
    /\ last.arguments.t = "str"
    /\ json_loads(last.arguments.v).kind # "ok"

\* C25: when the arguments of a tool call come as a text that does not
\* decode, the chat loop goes on with no arguments: the tool is called and
\* the call has a text for a result.
C25_LenientDecoding ==
    Undecodable_arguments => (last.invoked /\ last.out.kind = "return")

\* That holds of OllamaMCPBridge.chat_loop.
McpLenientDecoding ==
    (Undecodable_arguments /\ last.op = "mcp_tool_call")
        => (last.invoked /\ last.out.kind = "return")

\* C26: tools_to_ollama_format loses nothing: each descriptor has the
\* tool's name and description, and parameters of type "object" with the
\* properties and the required list of the tool's inputSchema.
C26_LosslessTranslation ==
    last.op = "tools_to_ollama_format" =>
        \A n \in DOMAIN last.tools :
            LET f == last.out[n].function
                schema == last.tools[n].inputSchema
            IN  /\ f.name = last.tools[n].name
                /\ f.description = last.tools[n].description
                /\ DOMAIN f.parameters = {"type", "properties", "required"}
                /\ f.parameters.type = "object"
                /\ f.parameters.properties = schema.properties
                /\ f.parameters.required = Get(schema, "required", << >>)

\* Names and descriptions are passed on.
NamesAndDescriptionsKept ==
    last.op = "tools_to_ollama_format" =>
        \A n \in DOMAIN last.tools :
            /\ last.out[n].function.name = last.tools[n].name
            /\ last.out[n].function.description = last.tools[n].description

\* C27: every note in the store has at most 3 tags, whatever was created
\* and updated.
C27_AtMostThreeTags ==
    \A i \in Notes(files) : Len(Get(files[i].obj, "tags", << >>)) <= 3

\* the names list_tools advertises
Advertised == {list_tools[n].name : n \in DOMAIN list_tools}

\* C28: the names list_tools advertises are the names call_tool routes, and
\* a call of an advertised name reaches a function that is defined: it
\* ends neither as an unknown tool nor with the handler's name unbound.
C28_CatalogAndDispatchAgree ==
    /\ Advertised = DOMAIN Route
    /\ (last.op = "mcp_tool_call" /\ last.invoked /\ last.name \in Advertised)
           => ~(/\ last.served.kind = "raise"
                /\ last.served.exc.type \in {"NameError", "ValueError"})

\* The names advertised and the names routed are the same six, and
\* create_note reaches its handler.
CatalogMatchesRoutes ==
    /\ Advertised = DOMAIN Route
    /\ (last.op = "mcp_tool_call" /\ last.invoked /\ last.name = "create_note")
           => ~(/\ last.served.kind = "raise"
                /\ last.served.exc.type \in {"NameError", "ValueError"})

====
